---------------------------- MODULE Spec2Model ----------------------------
(***************************************************************************)
(* Model of the paginated synchronisation engine of p2_rating:             *)
(*   - RatingsSynchronizer.fetch_page_with_retry / fetch_all_ratings       *)
(*     (src/services/rating_syncroniser.py),                               *)
(*   - EmployeeService._filter_latest_employee_records                     *)
(*     (src/services/employee_service.py),                                 *)
(*   - RatingUploader.post_rating_to_mes / process_rating_batch /          *)
(*     upload_ratings (src/services/rating_uploader.py),                   *)
(*   - the employee harvests, _get_page_hash and get_employee_statistics  *)
(*     (src/services/employee_service.py),                                 *)
(*   - RatingsSynchronizer.synchronize('api') and main() of main_sync.py   *)
(*     and main_upload.py.                                                 *)
(*                                                                         *)
(* Python values are represented as follows.  A dict is the sequence of    *)
(* its <<key, value>> pairs in insertion order.  An Optional[List] is a    *)
(* record [kind, items] with kind "None" or "list".  A date string         *)
(* 'YYYY-MM-DD' is the triple <<Y, M, D>> of its three number fields, and  *)
(* a missing or empty string is <<>>; a date_work that is a number n and   *)
(* not a string is <<n>>.                                                  *)
(***************************************************************************)
EXTENDS Integers, Sequences, FiniteSets, TLC

\* ------------------------------------------------------------------ bounds

\* The table read by upload_ratings holds at most MaxRows rows.
MaxRows == 3
\* batch_size is configured in 1..MaxBatch.
MaxBatch == 2
\* _filter_latest_employee_records is given at most MaxRecords records.
MaxRecords == 3
\* Page numbers above MaxPages are always answered with an empty page.
MaxPages == 4
\* parallel_requests is configured in 1..MaxParallel.
MaxParallel == 2
\* max_retries is configured in 0..MaxRetries.
MaxRetries == 3
\* The employee harvests are called with max_pages in 1..MaxEmpPages.
MaxEmpPages == 3
\* Bearer tokens are told apart by MaxTokens names, issued in turn.
MaxTokens == 2
\* Largest number of items of a page handed to _get_page_hash on its own.
MaxHashItems == 6
\* Largest number of rows of the table mes_employees read for the statistics.
MaxStatRows == 4
\* Rows of the frame one CSV synchronization appends.
MaxCsvRows == 3
\* CSV synchronizations followed one after the other.
MaxSyncs == 3

\* --------------------------------------------------------- program constants

\* RETRY_DELAY default (seconds), MESClient.__init__.
retry_delay == 1
\* _get_page_hash, line 214: the fallback digest shows the ids of page_data[:5].
HashIdsShown == 5

VARIABLES
    \* configuration (MESClient.__init__, RatingsSynchronizer.__init__)
    max_retries, parallel_requests,
    \* RatingsSynchronizer.fetch_all_ratings
    pc,                  \* position of the main thread
    token,               \* self.token: 0 is None, n > 0 the n-th token issued
    page,                \* first page number of the current wave
    all_records, previous_page_data,
    futures,             \* page number -> state of its future in the pool
    batch_results,       \* page number -> Optional[List] gathered by as_completed
    completed,           \* the keys of batch_results in insertion order
    p_pos,               \* position in page_range of the consumption loop
    returned,            \* the value fetch_all_ratings returned
    \* history of the run (not program state)
    fetched,             \* page number -> Optional[List] recorded for the page
    consumed,            \* page numbers inspected by the consumption loop, in order
    stop_page,           \* page number at which the loop returned (0: not yet)
    fetch_calls,         \* page number -> number of fetches submitted for it
    \* one call of RatingsSynchronizer.fetch_page_with_retry, request by request
    f_page,              \* the argument `page`
    f_pc,                \* "loop", "returned" or "raised"
    attempt,             \* the loop variable
    f_result,            \* the value returned
    f_log,               \* history: the response of every request sent, in order
    f_tokens,            \* history: the token every request carried
    f_waits,             \* history: every time.sleep argument, in order
    \* EmployeeService._filter_latest_employee_records
    filter_pc,               \* "loop" or "returned"
    all_employee_records,    \* the argument all_records
    rec_pos,                 \* position in all_records of the loop variable
    employee_latest_records, \* the dict, as its entries in insertion order
    latest_records,          \* the list returned
    \* RatingUploader.upload_ratings
    u_pc,                \* position in upload_ratings
    use_batches, batch_size,
    api_data_list,       \* the prepared rows
    batches,             \* the slices of api_data_list
    batch_num,           \* number of the batch being processed (from 1)
    item_pos,            \* position of the row being sent, in its batch or list
    retry_count,         \* argument of the running post_rating_to_mes call
    success_count, error_count,    \* locals of process_rating_batch
    total_success, total_errors,
    summaries,           \* history: the arguments of every print_summary call
    posts,               \* history: row -> number of POSTs sent for it
    outcome,             \* history: row -> "none", "success" or "error"
    \* history of the latest top-level post_rating_to_mes call
    post_row,            \* the row it was called with (0: no call yet)
    post_log,            \* the answer to every POST it sent, in order
    post_waits,          \* every time.sleep argument of lines 50-53, in order
    post_tokens,         \* the token every POST carried
    sent,                \* history of the run: the row of every POST, in order
    \* EmployeeService.get_all_employees_from_api ("staterest") and
    \* get_additional_employees_data_from_api ("work"), and sync_employees
    e_pc,                \* position: "auth", "loop", "returned", "raised", "done"
    e_method,            \* which of the two harvests runs
    max_pages,           \* the argument max_pages
    e_page,              \* the local `page`
    all_employees,       \* all_employees, or all_employee_records ("work")
    seen_page_hashes,    \* the set of page hashes ("work")
    e_returned,          \* the list the harvest returned
    save_to_db,          \* argument of sync_employees
    mes_employees,       \* the table mes_employees: None (absent) or its rows
    e_auth_failed,       \* history: a get_auth_token call of the run raised
    e_pages,             \* history: the non-empty 200 bodies handled, in order
    e_stop,              \* history: what ended the loop ("": nothing yet)
    e_requested,         \* history: the page of the latest GET (0: none yet)
    e_answer,            \* history: the answer to the latest GET ("": none yet)
    \* the relational store, as RatingsSynchronizer.synchronize('api') sees it
    sync_pc,             \* position in synchronize: "harvest" (in
                         \* fetch_all_ratings), "done", "nodata" or "failed"
    mes_ratings,         \* the table mes_ratings: None (absent) or its rows
    ratings_before,      \* history: the table when the run started
    writes,              \* history: number of save_table calls of the run
    \* main() of main_sync.py and main_upload.py
    exit_code,           \* the exit status of the process (-1: still running)
    interrupted_at,      \* history: where a KeyboardInterrupt hit ("": nowhere)
    \* one call of EmployeeService._get_page_hash
    h_pc,                \* "call", "returned" or "raised"
    h_payload,           \* the argument page_data
    h_result,            \* the value returned
    \* EmployeeService.get_employee_statistics
    s_pc,                \* "read", "stats", "returned" or "raised"
    s_store,             \* what reading the table mes_employees meets
    s_df,                \* the frame get_employees_from_postgres returned
    s_result,            \* the value get_employee_statistics returned
    \* RatingsSynchronizer.append_ratings_to_postgres
    a_pc,                \* "read", "write", "returned" or "raised"
    a_df,                \* the number of rows of the argument df
    max_index,           \* the local max_index
    rating_index,        \* the column rating_index of the table mes_ratings:
                         \* None (no table) or its values in row order
    index_before,        \* history: that column when the call started
    a_calls              \* history: the number of calls so far

syncVars == <<pc, page, all_records, previous_page_data, futures,
              batch_results, completed, p_pos, returned, fetched, consumed,
              stop_page, fetch_calls>>
fetchVars == <<f_page, f_pc, attempt, f_result, f_log, f_tokens, f_waits>>
cfgVars == <<max_retries, parallel_requests>>
dedupVars == <<filter_pc, all_employee_records, rec_pos,
               employee_latest_records, latest_records>>
uploadVars == <<u_pc, use_batches, batch_size, api_data_list, batches,
                batch_num, item_pos, retry_count, success_count, error_count,
                total_success, total_errors, summaries, posts, outcome,
                post_row, post_log, post_waits, post_tokens, sent>>
postVars == <<post_row, post_log, post_waits, post_tokens, sent>>
empVars == <<e_pc, e_method, max_pages, e_page, all_employees,
             seen_page_hashes, e_returned, save_to_db, mes_employees,
             e_auth_failed, e_pages, e_stop, e_requested, e_answer>>
storeVars == <<sync_pc, mes_ratings, ratings_before, writes>>
hashVars == <<h_pc, h_payload, h_result>>
statsVars == <<s_pc, s_store, s_df, s_result>>
\* The components outside the three runs, and the process around them.
mainVars == <<exit_code, interrupted_at>>
appendVars == <<a_pc, a_df, max_index, rating_index, index_before, a_calls>>
sideVars == <<mainVars, hashVars, statsVars, appendVars>>
vars == <<cfgVars, token, syncVars, fetchVars, dedupVars, uploadVars, empVars,
          storeVars, sideVars>>

\* What an action of one component leaves alone: the other components.  The
\* steps of fetch_all_ratings leave the store alone as well.
notSync == <<fetchVars, dedupVars, uploadVars, empVars, storeVars, sideVars>>
notFetch == <<token, syncVars, dedupVars, uploadVars, empVars, storeVars,
              sideVars>>
notDedup == <<cfgVars, token, syncVars, fetchVars, uploadVars, empVars,
              storeVars, sideVars>>
notUpload == <<parallel_requests, syncVars, fetchVars, dedupVars, empVars,
               storeVars, sideVars>>
notEmp == <<cfgVars, syncVars, fetchVars, dedupVars, uploadVars, storeVars,
            sideVars>>

\* ------------------------------------------------------------------ values

None == [kind |-> "None", items |-> <<>>]
List(s) == [kind |-> "list", items |-> s]

\* Rank of a dict key in the order json.dumps(sort_keys=True) emits keys.
KeyRank(k) == CASE k = "id_employee" -> 1 [] k = "mark" -> 2 [] OTHER -> 3

RecA == << <<"id_employee", 1>>, <<"mark", 5>> >>
\* The same mapping as RecA with its keys inserted in the other order.
RecA2 == << <<"mark", 5>>, <<"id_employee", 1>> >>
RecB == << <<"id_employee", 2>>, <<"mark", 5>> >>

\* The bodies the ratings API answers a page GET with (JSON arrays): the empty
\* page, one record, the same record with its keys in the other order, two
\* records, and the same two records in the other item order.
PageContents == { <<>>, <<RecA>>, <<RecA2>>, <<RecA, RecB>>, <<RecB, RecA>> }


\* ------------------------------------------- json.dumps(..., sort_keys=True)

RECURSIVE InsertPair(_, _)
InsertPair(pair, s) ==
    IF s = <<>> THEN <<pair>>
    ELSE IF KeyRank(pair[1]) < KeyRank(Head(s)[1]) THEN <<pair>> \o s
    ELSE <<Head(s)>> \o InsertPair(pair, Tail(s))

\* The pairs of a dict in ascending key order.
RECURSIVE SortKeys(_)
SortKeys(rec) ==
    IF rec = <<>> THEN <<>> ELSE InsertPair(Head(rec), SortKeys(Tail(rec)))

\* json.dumps(page, sort_keys=True): the items in list order, each with its
\* keys sorted.  Two dumps are equal strings iff these values are equal.
JsonDumps(pg) == [i \in 1..Len(pg) |-> SortKeys(pg[i])]

\* RatingsSynchronizer.pages_are_identical
pages_are_identical(page1, page2) ==
    IF page1 = <<>> \/ page2 = <<>> THEN FALSE
    ELSE IF Len(page1) # Len(page2) THEN FALSE
    ELSE JsonDumps(page1) = JsonDumps(page2)

\* ------------------------------------------------- fetch_page_with_retry

\* What one requests.get for page p can end in: a 200 body ("ok"), a transport
\* error ("neterr") or an error status raised by raise_for_status ("http401"),
\* both requests.RequestException, or any other exception ("exc").
Responses(p) ==
    {[kind |-> "ok", items |-> c] :
        c \in (IF p <= MaxPages THEN PageContents ELSE {<<>>})}
    \cup {[kind |-> k, items |-> <<>>] : k \in {"neterr", "http401", "exc"}}

IsRequestException(resp) == resp.kind \in {"neterr", "http401"}

\* One iteration of the retry loop, lines 45-71: what the iteration for
\* `attempt` = att does with the response of its request.
AttemptOutcome(att, resp, mr) ==
    IF resp.kind = "ok"
    THEN [act |-> "returned", result |-> List(resp.items), wait |-> 0]
    ELSE IF IsRequestException(resp)
    THEN IF att < mr - 1
         THEN [act |-> "retry", result |-> None,
               wait |-> retry_delay * (att + 1)]
         ELSE [act |-> "returned", result |-> None, wait |-> 0]
    ELSE [act |-> "raised", result |-> None, wait |-> 0]

\* The whole call: `for attempt in range(max_retries)`, with script[k] the
\* response of the k-th request.  A loop that ends without returning falls off
\* the function, which returns None.
RECURSIVE FetchLoop(_, _, _)
FetchLoop(att, script, mr) ==
    IF att >= mr THEN [st |-> "returned", result |-> None]
    ELSE LET o == AttemptOutcome(att, script[att + 1], mr) IN
         IF o.act = "retry" THEN FetchLoop(att + 1, script, mr)
         ELSE [st |-> o.act, result |-> o.result]

fetch_page_with_retry(script, mr) == FetchLoop(0, script, mr)

\* Every sequence of responses a call for page p can see when it may still
\* send n requests: a request follows only a response that is a
\* RequestException.
RECURSIVE Scripts(_, _)
Scripts(p, n) ==
    IF n = 0 THEN {<<>>}
    ELSE {<<r>> : r \in {x \in Responses(p) : ~IsRequestException(x)}}
         \cup {<<r>> \o t : r \in {x \in Responses(p) : IsRequestException(x)},
                            t \in Scripts(p, n - 1)}

\* ------------------------------------------------------ fetch_all_ratings

Running == [st |-> "running", result |-> None]

\* Mutant: the range is one page too long.
page_range_OneMore == page .. (page + parallel_requests)

\* Line 96: page_range = range(page, page + self.parallel_requests)
page_range == page .. (page + parallel_requests - 1)

NoResults == [p \in {} |-> None]

\* Line 90: self.token = self.get_auth_token(); the call may raise.
GetToken ==
    /\ pc = "auth"
    /\ \/ /\ token' = token + 1
          /\ pc' = "submit"
       \/ /\ pc' = "raised"
          /\ UNCHANGED token
    /\ UNCHANGED <<cfgVars, page, all_records, previous_page_data, futures,
                   batch_results, completed, p_pos, returned, fetched, consumed, stop_page,
                   fetch_calls>>
    /\ UNCHANGED notSync

\* Lines 96-105: the pool is created with parallel_requests workers and one
\* fetch per page of the wave is submitted, so every fetch starts at once.
SubmitWave ==
    /\ pc = "submit"
    /\ futures' = [p \in page_range |-> Running]
    /\ batch_results' = NoResults
    /\ completed' = <<>>
    /\ pc' = "collect"
    /\ fetch_calls' =
          [p \in DOMAIN fetch_calls \cup page_range |->
              (IF p \in DOMAIN fetch_calls THEN fetch_calls[p] ELSE 0)
              + (IF p \in page_range THEN 1 ELSE 0)]
    /\ UNCHANGED <<cfgVars, token, page, all_records, previous_page_data,
                   p_pos, returned, fetched,
                   consumed, stop_page>>
    /\ UNCHANGED notSync

\* As TokenAfterFetch, but a worker that meets a 401 stores a new token.
TokenAfterFetch_RefreshOn401(tok, script) ==
    IF \E i \in DOMAIN script : script[i].kind = "http401"
    THEN tok + 1 ELSE tok

\* fetch_page_with_retry, lines 42-71: self.token is read for the header of
\* every request (line 47) and never assigned.
TokenAfterFetch(tok, script) == tok

\* A pool worker runs fetch_page_with_retry(p) to its end.  The workers share
\* no state they write, so the call is one step.
WorkerFetch(p) ==
    /\ pc = "collect"
    /\ p \in DOMAIN futures
    /\ futures[p].st = "running"
    /\ \E script \in Scripts(p, max_retries) :
          /\ futures' = [futures EXCEPT ![p] = fetch_page_with_retry(script, max_retries)]
          /\ token' = TokenAfterFetch(token, script)
    /\ UNCHANGED <<cfgVars, pc, page, all_records, previous_page_data,
                   batch_results, completed, p_pos, returned, fetched, consumed, stop_page,
                   fetch_calls>>
    /\ UNCHANGED notSync

\* As CollectResult, but a fetch that raised counts as an empty page.
CollectResult_EmptyOnRaise(p) ==
    IF futures[p].st = "returned" THEN futures[p].result ELSE List(<<>>)

\* Lines 110-120: one iteration of `for future in as_completed(...)`, which
\* yields a future only once it is done.
CollectResult(p) ==
    IF futures[p].st = "returned" THEN futures[p].result ELSE None

Collect(p) ==
    /\ pc = "collect"
    /\ p \in DOMAIN futures
    /\ p \notin DOMAIN batch_results
    /\ futures[p].st # "running"
    /\ batch_results' = batch_results @@ (p :> CollectResult(p))
    /\ completed' = Append(completed, p)
    /\ fetched' = fetched @@ (p :> CollectResult(p))
    /\ UNCHANGED <<cfgVars, pc, token, page, all_records, previous_page_data,
                   futures, p_pos, returned, consumed, stop_page,
                   fetch_calls>>
    /\ UNCHANGED notSync

\* Mutant: the pool is left as soon as the first result has arrived.
AllCollected_First == DOMAIN batch_results # {}

\* as_completed is exhausted when it has yielded every future of the wave;
\* the `with` block then ends and the consumption loop starts at `page`.
AllCollected == DOMAIN batch_results = DOMAIN futures

ExitPool ==
    /\ pc = "collect"
    /\ AllCollected
    /\ pc' = "consume"
    /\ p_pos' = 1
    /\ UNCHANGED <<cfgVars, token, page, all_records, previous_page_data,
                   futures, batch_results, completed, returned, fetched,
                   consumed, stop_page,
                   fetch_calls>>
    /\ UNCHANGED notSync

\* Mutant: the comparison with the preceding page is missing.
StopsAt_NoDuplicateCheck(items, prev) ==
    \/ items.kind = "None"
    \/ items.items = <<>>

\* Mutant: a page that failed is skipped instead of ending the harvest.
StopsAt_SkipFailed(items, prev) ==
    \/ (items.kind = "list" /\ items.items = <<>>)
    \/ (items.kind = "list" /\ prev.kind = "list" /\ prev.items # <<>>
        /\ pages_are_identical(items.items, prev.items))

\* Lines 127-139: the three conditions on which the loop returns all_records.
StopsAt(items, prev) ==
    \/ items.kind = "None"
    \/ items.items = <<>>
    \/ (prev.kind = "list" /\ prev.items # <<>>
        /\ pages_are_identical(items.items, prev.items))

\* Mutant: the results are consumed in the order in which they arrived.
PageAt_CompletionOrder(k) == completed[k]

\* `for p in page_range`: the page number the k-th iteration binds p to.
PageAt(k) == page + k - 1

\* As ReturnValue, but a Failed page makes the harvest return nothing.
ReturnValue_NoneOnFailure(items, acc) ==
    IF items.kind = "None" THEN <<>> ELSE acc

\* Lines 127-139: each of the three stops returns all_records.
ReturnValue(items, acc) == acc

\* Lines 124-143: one iteration of `for p in page_range`.
Consume ==
    /\ pc = "consume"
    /\ p_pos <= parallel_requests
    /\ LET p == PageAt(p_pos)
           items == batch_results[p] IN
       /\ consumed' = Append(consumed, p)
       /\ IF StopsAt(items, previous_page_data)
          THEN /\ pc' = "returned"
               /\ returned' = ReturnValue(items, all_records)
               /\ stop_page' = p
               /\ UNCHANGED <<all_records, previous_page_data, p_pos>>
          ELSE /\ all_records' = all_records \o items.items
               /\ previous_page_data' = items
               /\ p_pos' = p_pos + 1
               /\ UNCHANGED <<pc, returned, stop_page>>
    /\ UNCHANGED <<cfgVars, token, page, futures, batch_results, completed,
                   fetched,
                   fetch_calls>>
    /\ UNCHANGED notSync

\* Mutant: the next wave starts one page after the start of this one.
NextPage_Overlap == page + 1

\* Line 147: page += self.parallel_requests
NextPage == page + parallel_requests

\* As NextWave, but the harvest returns what it has once it is past page 2.
NextWave_PageCap ==
    /\ pc = "consume"
    /\ p_pos > parallel_requests
    /\ page' = NextPage
    /\ IF NextPage > 2
       THEN pc' = "returned" /\ returned' = all_records
       ELSE pc' = "submit" /\ UNCHANGED returned
    /\ UNCHANGED <<cfgVars, token, all_records, previous_page_data, futures,
                   batch_results, completed, p_pos, fetched, consumed, stop_page,
                   fetch_calls>>
    /\ UNCHANGED notSync

\* Lines 145-148: the wave is consumed; page += parallel_requests.
NextWave ==
    /\ pc = "consume"
    /\ p_pos > parallel_requests
    /\ page' = NextPage
    /\ pc' = "submit"
    /\ UNCHANGED <<cfgVars, token, all_records, previous_page_data, futures,
                   batch_results, completed, p_pos, returned, fetched, consumed, stop_page,
                   fetch_calls>>
    /\ UNCHANGED notSync

\* As ShouldSave, but an empty harvest is written too.
ShouldSave_Always(records) == TRUE

\* synchronize, lines 289-291: `if not records: ... return`.
ShouldSave(records) == records # <<>>

\* As SaveTable, but with if_exists='append'.
SaveTable_Append(old, df) ==
    List((IF old.kind = "list" THEN old.items ELSE <<>>) \o df)

\* save_to_postgres, line 158, and save_table, line 46:
\* df.to_sql(table_name, if_exists='replace') makes the rows of df the table.
SaveTable(old, df) == List(df)

\* What a to_sql call that raises, or is interrupted, leaves of the table
\* old: the table as it was (nothing was done, or the transaction was rolled
\* back) or no table (it was dropped and not created again).
BrokenWrite(old) == {old, None}

\* synchronize, lines 286-291: fetch_all_ratings returned no record, and the
\* run ends without a write.
SyncNoData ==
    /\ pc = "returned"
    /\ sync_pc = "harvest"
    /\ ~ShouldSave(returned)
    /\ sync_pc' = "nodata"
    /\ UNCHANGED <<cfgVars, token, syncVars>>
    /\ UNCHANGED <<mes_ratings, ratings_before, writes, fetchVars, dedupVars,
                   uploadVars, empVars, sideVars>>

\* synchronize, lines 293-299 and 319-323: the records are written by
\* save_to_postgres; the run ends as a success, or with the exception of the
\* write, which save_table, save_to_postgres and synchronize raise again.
SyncSave ==
    /\ pc = "returned"
    /\ sync_pc = "harvest"
    /\ ShouldSave(returned)
    /\ writes' = writes + 1
    /\ \/ /\ mes_ratings' = SaveTable(mes_ratings, returned)
          /\ sync_pc' = "done"
       \/ /\ mes_ratings' \in BrokenWrite(mes_ratings)
          /\ sync_pc' = "failed"
    /\ UNCHANGED <<cfgVars, token, syncVars>>
    /\ UNCHANGED <<ratings_before, fetchVars, dedupVars, uploadVars, empVars,
                   sideVars>>

SyncInit ==
    /\ pc = "auth"
    /\ page = 1
    /\ all_records = <<>>
    /\ previous_page_data = None
    /\ futures = NoResults
    /\ batch_results = NoResults
    /\ completed = <<>>
    /\ p_pos = 1
    /\ returned = <<>>
    /\ fetched = NoResults
    /\ consumed = <<>>
    /\ stop_page = 0
    /\ fetch_calls = <<>>

CfgInit ==
    /\ max_retries \in 0..MaxRetries
    /\ parallel_requests \in 1..MaxParallel

\* No call of fetch_page_with_retry is being followed request by request.
FetchIdle ==
    /\ f_page = 0
    /\ f_pc = "idle"
    /\ attempt = 0
    /\ f_result = None
    /\ f_log = <<>>
    /\ f_tokens = <<>>
    /\ f_waits = <<>>

\* _filter_latest_employee_records is not running.
DedupIdle ==
    /\ filter_pc = "idle"
    /\ all_employee_records = <<>>
    /\ rec_pos = 1
    /\ employee_latest_records = <<>>
    /\ latest_records = <<>>

\* upload_ratings is not running.
UploadIdle ==
    /\ u_pc = "idle"
    /\ use_batches = FALSE
    /\ batch_size = 1
    /\ api_data_list = <<>>
    /\ batches = <<>>
    /\ batch_num = 0
    /\ item_pos = 1
    /\ retry_count = 0
    /\ success_count = 0
    /\ error_count = 0
    /\ total_success = 0
    /\ total_errors = 0
    /\ summaries = <<>>
    /\ posts = <<>>
    /\ outcome = <<>>
    /\ post_row = 0
    /\ post_log = <<>>
    /\ post_waits = <<>>
    /\ post_tokens = <<>>
    /\ sent = <<>>

\* No harvest of EmployeeService is running.
EmpIdle ==
    /\ e_pc = "idle"
    /\ e_method = "staterest"
    /\ max_pages = 1
    /\ e_page = 1
    /\ all_employees = <<>>
    /\ seen_page_hashes = {}
    /\ e_returned = <<>>
    /\ save_to_db = FALSE
    /\ mes_employees = None
    /\ e_auth_failed = FALSE
    /\ e_pages = <<>>
    /\ e_stop = ""
    /\ e_requested = 0
    /\ e_answer = ""

\* The table mes_ratings before synchronize('api') runs: absent, or the rows
\* an earlier run left.
StoreInit ==
    /\ sync_pc = "harvest"
    /\ mes_ratings \in {None, List(<<RecA>>)}
    /\ ratings_before = mes_ratings
    /\ writes = 0

\* The table mes_ratings is not looked at.
StoreIdle ==
    /\ sync_pc = "idle"
    /\ mes_ratings = None
    /\ ratings_before = None
    /\ writes = 0

\* The process has not exited.
NoExit == exit_code = -1 /\ interrupted_at = ""

\* No value returned by _get_page_hash.
NoDigest == [kind |-> "none", len |-> 0, ids |-> <<>>, sorted |-> <<>>]

\* _get_page_hash is not followed on its own.
HashIdle ==
    /\ h_pc = "idle"
    /\ h_payload = <<>>
    /\ h_result = NoDigest

\* pd.DataFrame(): a frame without rows and without columns.
EmptyFrame == [rows |-> <<>>, has_column |-> FALSE]

\* No value returned by get_employee_statistics.
NoStats ==
    [kind |-> "none", total_employees |-> 0, active_employees |-> 0,
     dismissed_employees |-> 0, active_percentage |-> 0]

\* The table mes_employees exists and holds the rows given, each row being
\* its date_dismissal_employee ("isna" for a missing one) when the table has
\* that column.
Table(rows, has_column) ==
    [kind |-> "rows", cause |-> "", rows |-> rows, has_column |-> has_column]

\* Reading the table raises an error with the cause given.
StoreError(cause) ==
    [kind |-> "error", cause |-> cause, rows |-> <<>>, has_column |-> FALSE]

\* get_employee_statistics is not running.
StatsIdle ==
    /\ s_pc = "idle"
    /\ s_store = Table(<<>>, FALSE)
    /\ s_df = EmptyFrame
    /\ s_result = NoStats

\* append_ratings_to_postgres is not running.
AppendIdle ==
    /\ a_pc = "idle"
    /\ a_df = 0
    /\ max_index = 0
    /\ rating_index = None
    /\ index_before = None
    /\ a_calls = 0

SideIdle == NoExit /\ HashIdle /\ StatsIdle /\ AppendIdle

\* MESClient.__init__: self.token = None.
NoToken == token = 0

Init ==
    /\ CfgInit /\ NoToken /\ SyncInit /\ FetchIdle /\ DedupIdle /\ UploadIdle
    /\ EmpIdle /\ StoreInit /\ SideIdle

Next ==
    \/ GetToken
    \/ SubmitWave
    \/ \E p \in DOMAIN futures : WorkerFetch(p)
    \/ \E p \in DOMAIN futures : Collect(p)
    \/ ExitPool
    \/ Consume
    \/ NextWave
    \/ SyncNoData
    \/ SyncSave

Spec == Init /\ [][Next]_vars


\* ------------------------- fetch_page_with_retry, request by request

\* One iteration of `for attempt in range(self.max_retries)`, lines 44-71:
\* the request is sent with self.token and its response handled.
FetchRequest ==
    /\ f_pc = "loop"
    /\ attempt < max_retries
    /\ \E resp \in Responses(f_page) :
          LET o == AttemptOutcome(attempt, resp, max_retries) IN
          /\ f_log' = Append(f_log, resp.kind)
          /\ f_tokens' = Append(f_tokens, token)
          /\ IF o.act = "retry"
             THEN /\ f_waits' = Append(f_waits, o.wait)
                  /\ attempt' = attempt + 1
                  /\ UNCHANGED <<f_pc, f_result>>
             ELSE /\ f_pc' = o.act
                  /\ f_result' = o.result
                  /\ UNCHANGED <<attempt, f_waits>>
    /\ UNCHANGED <<cfgVars, f_page>>
    /\ UNCHANGED notFetch

\* range(self.max_retries) is exhausted without a return: the function ends
\* and returns None.
FetchFallOff ==
    /\ f_pc = "loop"
    /\ attempt >= max_retries
    /\ f_pc' = "returned"
    /\ f_result' = None
    /\ UNCHANGED <<cfgVars, f_page, attempt, f_log, f_tokens, f_waits>>
    /\ UNCHANGED notFetch

\* fetch_all_ratings is not running.
SyncIdle ==
    /\ pc = "idle"
    /\ page = 1
    /\ all_records = <<>>
    /\ previous_page_data = None
    /\ futures = NoResults
    /\ batch_results = NoResults
    /\ completed = <<>>
    /\ p_pos = 1
    /\ returned = <<>>
    /\ fetched = NoResults
    /\ consumed = <<>>
    /\ stop_page = 0
    /\ fetch_calls = <<>>

\* fetch_page_with_retry(f_page) has been called.
FetchInit ==
    /\ f_page \in 1..(MaxPages + 1)
    /\ f_pc = "loop"
    /\ attempt = 0
    /\ f_result = None
    /\ f_log = <<>>
    /\ f_tokens = <<>>
    /\ f_waits = <<>>

\* The caller of fetch_page_with_retry has set self.token.
InitFetch ==
    /\ CfgInit /\ token = 1 /\ SyncIdle /\ FetchInit /\ DedupIdle /\ UploadIdle
    /\ EmpIdle /\ StoreIdle /\ SideIdle

NextFetch ==
    \/ FetchRequest
    \/ FetchFallOff

SpecFetch == InitFetch /\ [][NextFetch]_vars

\* ------------------------------- _filter_latest_employee_records

\* The values of record.get('id_employee'): 0 stands for a missing or empty
\* id (None, '' or 0: `not emp_id` holds).
EmployeeIds == {0, 1, 2}

\* The string values of record.get('date_work'): <<>> stands for a missing or
\* empty string, <<Y, M, D>> for the string 'YYYY-MM-DD'.
DateStrings ==
    { <<>>, <<0, 0, 0>>, <<1899, 12, 31>>, <<1900, 1, 1>>, <<2024, 1, 1>>,
      <<2024, 13, 1>> }

\* Values of record.get('date_work') that are not strings: the number n is
\* <<n>>.
NonStrings == { <<7>>, <<9>> }

DateWorkValues == DateStrings \cup NonStrings

\* isinstance(date_work_str, str)
IsString(d) == Len(d) # 1

\* date_work_str == '0000-00-00' or date_work_str.startswith('0000')
IsZeroDate(d) == d[1] = 0

IsLeap(y) == (y % 4 = 0 /\ y % 100 # 0) \/ y % 400 = 0

DaysInMonth(y, m) ==
    IF m = 2 THEN (IF IsLeap(y) THEN 29 ELSE 28)
    ELSE IF m \in {4, 6, 9, 11} THEN 30 ELSE 31

\* datetime.strptime(s[:10], '%Y-%m-%d') raises ValueError unless the fields
\* are a date of the calendar.
StrptimeOk(d) ==
    /\ d[1] >= 1 /\ d[1] <= 9999
    /\ d[2] >= 1 /\ d[2] <= 12
    /\ d[3] >= 1 /\ d[3] <= DaysInMonth(d[1], d[2])

\* datetime(1900, 1, 1)
Date1900 == <<1900, 1, 1>>

\* Lines 172-178: the value of date_work: the datetime a date string is
\* parsed to, or the value itself when it is not a string; ok is FALSE when
\* strptime raises.
ParseDate(d) ==
    IF ~IsString(d) THEN [ok |-> TRUE, date |-> d]
    ELSE IF d = <<>> THEN [ok |-> FALSE, date |-> Date1900]
    ELSE IF IsZeroDate(d) THEN [ok |-> TRUE, date |-> Date1900]
    ELSE IF StrptimeOk(d) THEN [ok |-> TRUE, date |-> d]
    ELSE [ok |-> FALSE, date |-> Date1900]

\* Mutant: the comparison is the wrong way round.
DateGT_Reversed(a, b) ==
    \/ a[1] < b[1]
    \/ (a[1] = b[1] /\ a[2] < b[2])
    \/ (a[1] = b[1] /\ a[2] = b[2] /\ a[3] < b[3])

\* a > b on datetime values.
DateGT(a, b) ==
    \/ a[1] > b[1]
    \/ (a[1] = b[1] /\ a[2] > b[2])
    \/ (a[1] = b[1] /\ a[2] = b[2] /\ a[3] > b[3])

\* `a > b` raises TypeError unless both are datetimes or both are numbers.
Comparable(a, b) == Len(a) = Len(b)

\* Mutant: a record also replaces the retained one when the dates are equal.
GT_OrEqual(a, b) == IF Len(a) = 3 THEN ~DateGT(b, a) ELSE a[1] >= b[1]

\* date_work > employee_latest_records[emp_id]['parsed_date'], line 181
GT(a, b) == IF Len(a) = 3 THEN DateGT(a, b) ELSE a[1] > b[1]

\* emp_id in employee_latest_records
HasKey(elr, emp_id) == \E i \in DOMAIN elr : elr[i].emp_id = emp_id

KeyPos(elr, emp_id) == CHOOSE i \in DOMAIN elr : elr[i].emp_id = emp_id

\* employee_latest_records[emp_id] = {'data': ..., 'parsed_date': ...}: a new
\* key is appended, an existing key keeps its place.
SetItem(elr, emp_id, record, date) ==
    LET entry == [emp_id |-> emp_id, data |-> record, parsed_date |-> date] IN
    IF HasKey(elr, emp_id)
    THEN [elr EXCEPT ![KeyPos(elr, emp_id)] = entry]
    ELSE Append(elr, entry)

\* Mutant: only the id is required.
IsIncomplete_IdOnly(record) == record.id_employee = 0

\* Line 167: not emp_id or not date_work_str
IsIncomplete(record) == record.id_employee = 0 \/ record.date_work = <<>>

\* Mutant: a record whose date cannot be parsed or compared is dropped.
OnDateError_Dropped(elr, emp_id, record) == elr

\* except (ValueError, TypeError), lines 188-194: the record is stored with
\* datetime(1900, 1, 1) when the id has no entry yet.
OnDateError(elr, emp_id, record) ==
    IF ~HasKey(elr, emp_id)
    THEN SetItem(elr, emp_id, record, Date1900)
    ELSE elr

\* Lines 164-194: the body of `for record in all_records`.
FilterRecord(elr, record) ==
    LET emp_id == record.id_employee
        date_work_str == record.date_work
        parsed == ParseDate(date_work_str)
        stored == elr[KeyPos(elr, emp_id)].parsed_date
    IN  IF IsIncomplete(record) THEN elr
        ELSE IF parsed.ok
                /\ (~HasKey(elr, emp_id) \/ Comparable(parsed.date, stored))
        THEN IF ~HasKey(elr, emp_id) \/ GT(parsed.date, stored)
             THEN SetItem(elr, emp_id, record, parsed.date)
             ELSE elr
        ELSE OnDateError(elr, emp_id, record)

\* Mutant: the entries are listed last to first.
DictData_Reversed(elr) == [i \in 1..Len(elr) |-> elr[Len(elr) + 1 - i].data]

\* Line 196: the data of every entry, in the order of the dict.
DictData(elr) == [i \in 1..Len(elr) |-> elr[i].data]

\* Lines 161-194: the dict after `for record in all_records`, started from elr.
RECURSIVE FilterLoop(_, _)
FilterLoop(elr, recs) ==
    IF recs = <<>> THEN elr
    ELSE FilterLoop(FilterRecord(elr, Head(recs)), Tail(recs))

\* EmployeeService._filter_latest_employee_records as a function of its
\* argument.
filter_latest_employee_records(recs) ==
    DictData(FilterLoop(<<>>, recs))

\* One iteration of the loop.
FilterStep ==
    /\ filter_pc = "loop"
    /\ rec_pos <= Len(all_employee_records)
    /\ employee_latest_records' =
          FilterRecord(employee_latest_records, all_employee_records[rec_pos])
    /\ rec_pos' = rec_pos + 1
    /\ UNCHANGED <<filter_pc, all_employee_records, latest_records>>
    /\ UNCHANGED notDedup

\* Lines 196-200: the loop has ended.
FilterReturn ==
    /\ filter_pc = "loop"
    /\ rec_pos > Len(all_employee_records)
    /\ latest_records' = DictData(employee_latest_records)
    /\ filter_pc' = "returned"
    /\ UNCHANGED <<all_employee_records, rec_pos, employee_latest_records>>
    /\ UNCHANGED notDedup

\* The records the work API can list: an id, a date and further fields, which
\* `row` stands for (it tells two records with the same id and date apart).
WorkRecords(f) ==
    [i \in DOMAIN f |->
        [id_employee |-> f[i][1], date_work |-> f[i][2], row |-> i]]

\* _filter_latest_employee_records(all_employee_records) has been called.
DedupInit ==
    /\ filter_pc = "loop"
    /\ \E n \in 0..MaxRecords :
          \E f \in [1..n -> EmployeeIds \X DateWorkValues] :
             all_employee_records = WorkRecords(f)
    /\ rec_pos = 1
    /\ employee_latest_records = <<>>
    /\ latest_records = <<>>

\* The configuration is not read by the filter.
CfgDefault ==
    /\ max_retries = MaxRetries
    /\ parallel_requests = 1

InitDedup ==
    /\ CfgDefault /\ NoToken /\ SyncIdle /\ FetchIdle /\ DedupInit /\ UploadIdle
    /\ EmpIdle /\ StoreIdle /\ SideIdle

NextDedup ==
    \/ FilterStep
    \/ FilterReturn

SpecDedup == InitDedup /\ [][NextDedup]_vars

\* ------------------------------------------------------- RatingUploader

\* What one requests.post can end in: a 2xx answer ("ok"), a transport error
\* ("neterr") or an error status raised by raise_for_status ("http401"), both
\* requests.RequestException.
PostResponses == {"ok", "neterr", "http401"}

\* Mutant: the budget counts requests, as in fetch_page_with_retry.
PostOutcome_OneFewer(rc, resp, mr) ==
    IF resp = "ok" THEN "success"
    ELSE IF rc < mr - 1 THEN "retry"
    ELSE "error"

\* Mutant: a response with an HTTP error status is not retried.
PostOutcome_HttpErrorFinal(rc, resp, mr) ==
    IF resp = "ok" THEN "success"
    ELSE IF resp = "neterr" /\ rc < mr THEN "retry"
    ELSE "error"

\* post_rating_to_mes(data, rc), lines 23-57, after its request was answered:
\* "success" (return True), "retry" (sleep and call itself with rc + 1) or
\* "error" (return False).
PostOutcome(rc, resp, mr) ==
    IF resp = "ok" THEN "success"
    ELSE IF rc < mr THEN "retry"
    ELSE "error"

\* Line 50: wait_time = (retry_count + 1) * self.retry_delay
PostWait(rc) == (rc + 1) * retry_delay

Min(a, b) == IF a < b THEN a ELSE b

\* Mutant: a last slice shorter than size is dropped.
Batches_DropPartial(list, size) ==
    [b \in 1..(Len(list) \div size) |->
        SubSeq(list, (b - 1) * size + 1, b * size)]

\* As Batches, but each slice is list[i:i + size + 1].
Batches_InclusiveEnd(list, size) ==
    [b \in 1..((Len(list) + size - 1) \div size) |->
        SubSeq(list, (b - 1) * size + 1, Min(b * size + 1, Len(list)))]

\* Lines 144-145: [list[i:i + size] for i in range(0, len(list), size)]
Batches(list, size) ==
    [b \in 1..((Len(list) + size - 1) \div size) |->
        SubSeq(list, (b - 1) * size + 1, Min(b * size, Len(list)))]

\* Line 119: self.token = self.get_auth_token(); the call may raise.
UploadGetToken ==
    /\ u_pc = "auth"
    /\ \/ /\ token' = token + 1
          /\ u_pc' = "read"
       \/ /\ u_pc' = "raised"
          /\ UNCHANGED token
    /\ UNCHANGED <<max_retries, use_batches, batch_size, api_data_list,
                   batches, batch_num, item_pos, retry_count, success_count,
                   error_count, total_success, total_errors, summaries, posts,
                   outcome,
                   postVars>>
    /\ UNCHANGED notUpload

\* Lines 122-146 and 160-162: the rows have been read and prepared; the run
\* ends if there is none, and else the delivery mode is chosen.
UploadPrepare ==
    /\ u_pc = "read"
    /\ IF api_data_list = <<>>
       THEN /\ u_pc' = "nodata"
            /\ UNCHANGED <<batches, batch_num>>
       ELSE IF use_batches /\ Len(api_data_list) > batch_size
       THEN /\ batches' = Batches(api_data_list, batch_size)
            /\ batch_num' = 1
            /\ u_pc' = "batch"
       ELSE /\ u_pc' = "sequential"
            /\ UNCHANGED <<batches, batch_num>>
    /\ UNCHANGED <<max_retries, token, use_batches, batch_size, api_data_list,
                   item_pos, retry_count, success_count, error_count,
                   total_success, total_errors, summaries, posts, outcome,
                   postVars>>
    /\ UNCHANGED notUpload

\* Mutant: the loop is left at the first row that ends in an error.
NextItem_BreakOnError(pos, res, n) == IF res = "error" THEN n + 1 ELSE pos + 1

\* `for data in batch_data` (line 64) and `for idx, api_data in enumerate(...)`
\* (line 162): the position after the row at pos of a list of n rows, whose
\* call returned res.
NextItem(pos, res, n) == pos + 1

\* The list the running loop iterates: the batch given to
\* process_rating_batch (line 64), or api_data_list (line 162).
SendList == IF u_pc = "batch" THEN batches[batch_num] ELSE api_data_list

\* One requests.post of post_rating_to_mes for the current row and what the
\* call and its caller do with the answer: lines 35-57, then lines 65-75 in a
\* batch or lines 165-174 in sequential mode.
Post ==
    /\ u_pc \in {"batch", "sequential"}
    /\ item_pos <= Len(SendList)
    /\ \E resp \in PostResponses :
          LET row == SendList[item_pos]
              res == PostOutcome(retry_count, resp, max_retries)
          IN  /\ posts' = [posts EXCEPT ![row] = @ + 1]
              /\ post_row' = row
              /\ post_log' = IF retry_count = 0 THEN <<resp>>
                             ELSE Append(post_log, resp)
              /\ post_tokens' = IF retry_count = 0 THEN <<token>>
                                ELSE Append(post_tokens, token)
              /\ sent' = Append(sent, row)
              /\ post_waits' =
                    LET before == IF retry_count = 0 THEN <<>> ELSE post_waits
                    IN  IF res = "retry"
                        THEN Append(before, PostWait(retry_count))
                        ELSE before
              /\ IF res = "retry"
                 THEN /\ retry_count' = retry_count + 1
                      /\ UNCHANGED <<item_pos, success_count, error_count,
                                     total_success, total_errors, outcome>>
                 ELSE /\ retry_count' = 0
                      /\ item_pos' = NextItem(item_pos, res, Len(SendList))
                      /\ outcome' = [outcome EXCEPT ![row] = res]
                      /\ IF u_pc = "batch"
                         THEN /\ success_count' =
                                    success_count + (IF res = "success" THEN 1 ELSE 0)
                              /\ error_count' =
                                    error_count + (IF res = "error" THEN 1 ELSE 0)
                              /\ UNCHANGED <<total_success, total_errors>>
                         ELSE /\ total_success' =
                                    total_success + (IF res = "success" THEN 1 ELSE 0)
                              /\ total_errors' =
                                    total_errors + (IF res = "error" THEN 1 ELSE 0)
                              /\ UNCHANGED <<success_count, error_count>>
    /\ UNCHANGED <<max_retries, token, u_pc, use_batches, batch_size,
                   api_data_list, batches, batch_num, summaries>>
    /\ UNCHANGED notUpload

\* Lines 77 and 150-158: process_rating_batch returns its two counts, which
\* are added to the totals; the next batch, if any, starts with counts of 0.
BatchReturn ==
    /\ u_pc = "batch"
    /\ item_pos > Len(SendList)
    /\ total_success' = total_success + success_count
    /\ total_errors' = total_errors + error_count
    /\ success_count' = 0
    /\ error_count' = 0
    /\ item_pos' = 1
    /\ IF batch_num < Len(batches)
       THEN batch_num' = batch_num + 1 /\ UNCHANGED u_pc
       ELSE u_pc' = "summary" /\ UNCHANGED batch_num
    /\ UNCHANGED <<max_retries, token, use_batches, batch_size, api_data_list,
                   batches, retry_count, summaries, posts, outcome,
                   postVars>>
    /\ UNCHANGED notUpload

\* Line 162: the sequential loop has gone through api_data_list.
SequentialEnd ==
    /\ u_pc = "sequential"
    /\ item_pos > Len(SendList)
    /\ u_pc' = "summary"
    /\ UNCHANGED <<max_retries, token, use_batches, batch_size, api_data_list,
                   batches, batch_num, item_pos, retry_count, success_count,
                   error_count, total_success, total_errors, summaries, posts,
                   outcome,
                   postVars>>
    /\ UNCHANGED notUpload

\* As PrintSummary, but the tally is printed only for a run without errors.
PrintSummary_SkippedOnErrors ==
    /\ u_pc = "summary"
    /\ summaries' = IF total_errors = 0
                    THEN Append(summaries,
                           [success_count |-> total_success,
                            error_count |-> total_errors,
                            total_count |-> Len(api_data_list)])
                    ELSE summaries
    /\ u_pc' = "done"
    /\ UNCHANGED <<max_retries, token, use_batches, batch_size, api_data_list,
                   batches, batch_num, item_pos, retry_count, success_count,
                   error_count, total_success, total_errors, posts, outcome,
                   postVars>>
    /\ UNCHANGED notUpload

\* Line 177: self.print_summary(total_success, total_errors, len(api_data_list))
PrintSummary ==
    /\ u_pc = "summary"
    /\ summaries' = Append(summaries,
          [success_count |-> total_success, error_count |-> total_errors,
           total_count |-> Len(api_data_list)])
    /\ u_pc' = "done"
    /\ UNCHANGED <<max_retries, token, use_batches, batch_size, api_data_list,
                   batches, batch_num, item_pos, retry_count, success_count,
                   error_count, total_success, total_errors, posts, outcome,
                   postVars>>
    /\ UNCHANGED notUpload

\* upload_ratings(table_name, use_batches) has been called; the table holds
\* the rows that prepare_api_data turns into api_data_list, row i being the
\* i-th of them.
UploadInit ==
    /\ u_pc = "auth"
    /\ use_batches \in BOOLEAN
    /\ batch_size \in 1..MaxBatch
    /\ api_data_list \in {[i \in 1..n |-> i] : n \in 0..MaxRows}
    /\ batches = <<>>
    /\ batch_num = 0
    /\ item_pos = 1
    /\ retry_count = 0
    /\ success_count = 0
    /\ error_count = 0
    /\ total_success = 0
    /\ total_errors = 0
    /\ summaries = <<>>
    /\ posts = [i \in DOMAIN api_data_list |-> 0]
    /\ outcome = [i \in DOMAIN api_data_list |-> "none"]
    /\ post_row = 0
    /\ post_log = <<>>
    /\ post_waits = <<>>
    /\ post_tokens = <<>>
    /\ sent = <<>>

InitUpload ==
    /\ max_retries \in 0..MaxRetries
    /\ parallel_requests = 1
    /\ NoToken /\ SyncIdle /\ FetchIdle /\ DedupIdle /\ UploadInit
    /\ EmpIdle /\ StoreIdle /\ SideIdle

NextUpload ==
    \/ UploadGetToken
    \/ UploadPrepare
    \/ Post
    \/ BatchReturn
    \/ SequentialEnd
    \/ PrintSummary

SpecUpload == InitUpload /\ [][NextUpload]_vars

\* upload_ratings is one thread that always takes its next step: every POST
\* is answered or fails within its timeout, and every sleep ends.
SpecUploadFair == SpecUpload /\ WF_vars(NextUpload)

\* ------------------------------------------- EmployeeService harvests

EmpA == [id_employee |-> 1, date_work |-> <<2024, 1, 1>>, row |-> 1]
\* Another record of the same employee.
EmpA0 == [id_employee |-> 1, date_work |-> <<0, 0, 0>>, row |-> 2]
EmpB == [id_employee |-> 2, date_work |-> <<2024, 1, 1>>, row |-> 3]

\* The bodies the staterest and work APIs answer a page GET with.
EmpPageContents ==
    { <<>>, <<EmpA>>, <<EmpB>>, <<EmpA, EmpB>>, <<EmpB, EmpA>>,
      <<EmpA, EmpA0>> }

\* What one requests.get of the loop can end in: status 200 with a body,
\* status 401, another status, or a requests.RequestException.
EmpResponses ==
    {[kind |-> "ok", items |-> c] : c \in EmpPageContents}
    \cup {[kind |-> k, items |-> <<>>] : k \in {"http401", "http500", "neterr"}}

\* What get_auth_token can end in: the token ("ok"), a
\* requests.RequestException raised by requests.post or raise_for_status
\* ("reqexc"), or the Exception of lines 40-45 ("exc").
TokenResults == {"ok", "reqexc", "exc"}

\* The token a successful get_auth_token call returns after token t.
NextToken(t) == (t % MaxTokens) + 1

\* sorted(page_data, key=lambda x: str(x.get('id_employee', ''))): a stable
\* sort; the ids of the model are single digits, which str() orders as numbers.
RECURSIVE InsertEmp(_, _)
InsertEmp(rec, sorted) ==
    IF sorted = <<>> THEN <<rec>>
    ELSE IF rec.id_employee <= Head(sorted).id_employee THEN <<rec>> \o sorted
    ELSE <<Head(sorted)>> \o InsertEmp(rec, Tail(sorted))

RECURSIVE SortEmp(_)
SortEmp(pg) ==
    IF pg = <<>> THEN <<>> ELSE InsertEmp(Head(pg), SortEmp(Tail(pg)))

\* EmployeeService._get_page_hash: the md5 digest of the dump of the sorted
\* page, which tells two pages apart iff their sorted dumps differ.
get_page_hash(page_data) == SortEmp(page_data)

\* Lines 52-60 ("staterest") and 117-126 ("work"): what a non-empty page does
\* to the gathered list and to the set of hashes, and whether the loop breaks.
AcceptPage(method, all, seen, page_data) ==
    IF method = "staterest"
    THEN LET existing_ids == {all[i].id_employee : i \in DOMAIN all}
             new_employees ==
                 SelectSeq(page_data, LAMBDA emp : emp.id_employee \notin existing_ids)
         IN  [all |-> all \o new_employees, seen |-> seen,
              stop |-> new_employees = <<>>]
    ELSE IF get_page_hash(page_data) \in seen
         THEN [all |-> all, seen |-> seen, stop |-> TRUE]
         ELSE [all |-> all \o page_data,
               seen |-> seen \cup {get_page_hash(page_data)}, stop |-> FALSE]

\* As OnRequestException, but the exception is raised again on every page.
OnRequestException_AlwaysRaise(pg) == "raise"

\* Lines 71-75 and 137-141, the handler of `except requests.RequestException`:
\* `if page == 1: raise`, then `break`.
OnRequestException(pg) == IF pg = 1 THEN "raise" ELSE "break"

\* One iteration of `while page <= max_pages`, lines 37-78 and 102-144, for
\* the answer resp to its GET and, after a 401, the result tok of
\* get_auth_token: act is "next" (page += 1), "again" (continue), "break" or
\* "raise".
EmpIteration(method, pg, all, seen, resp, tok) ==
    LET same == [all |-> all, seen |-> seen, refreshed |-> FALSE,
                 auth_failed |-> FALSE]
    IN  IF resp.kind = "ok"
        THEN IF resp.items = <<>> THEN [act |-> "break"] @@ same
             ELSE LET a == AcceptPage(method, all, seen, resp.items)
                  IN  [act |-> IF a.stop THEN "break" ELSE "next",
                       all |-> a.all, seen |-> a.seen, refreshed |-> FALSE,
                       auth_failed |-> FALSE]
        ELSE IF resp.kind = "http401"
        THEN IF tok = "ok"
             THEN [same EXCEPT !.refreshed = TRUE] @@ [act |-> "again"]
             ELSE IF tok = "reqexc"
             \* caught by `except requests.RequestException` of the loop
             THEN [same EXCEPT !.auth_failed = TRUE]
                     @@ [act |-> OnRequestException(pg)]
             ELSE [same EXCEPT !.auth_failed = TRUE] @@ [act |-> "raise"]
        ELSE IF resp.kind = "http500" THEN [act |-> "break"] @@ same
        ELSE [act |-> OnRequestException(pg)] @@ same

\* The statement that ended the loop on the answer resp: the break of lines
\* 48-50 and 113-115 ("empty"), of lines 58-60 ("no_new") and 119-122
\* ("duplicate"), of lines 67-69 and 133-135 ("status"), or the handler of
\* lines 71-75 and 137-141, also reached by a failed token refresh ("error").
StopReason(method, resp) ==
    IF resp.kind = "ok"
    THEN IF resp.items = <<>> THEN "empty"
         ELSE IF method = "work" THEN "duplicate" ELSE "no_new"
    ELSE IF resp.kind = "http500" THEN "status"
    ELSE "error"

\* Lines 80-81 and 146-151: the value returned for the gathered list.
EmpResult(method, all) ==
    IF method = "work" THEN filter_latest_employee_records(all) ELSE all

\* Lines 31 and 96: self.token = self.get_auth_token(), outside the inner try.
EmpGetToken ==
    /\ e_pc = "auth"
    /\ \E tok \in TokenResults :
          IF tok = "ok"
          THEN /\ token' = NextToken(token)
               /\ e_pc' = "loop"
               /\ UNCHANGED e_auth_failed
          ELSE /\ e_pc' = "raised"
               /\ e_auth_failed' = TRUE
               /\ UNCHANGED token
    /\ UNCHANGED <<e_method, max_pages, e_page, all_employees,
                   seen_page_hashes, e_returned, save_to_db, mes_employees,
                   e_pages, e_stop, e_requested, e_answer>>
    /\ UNCHANGED notEmp

\* As NextEmpPage, but the 401 branch lacks its `continue`.
NextEmpPage_AdvanceOn401(pg, act) ==
    IF act \in {"next", "again"} THEN pg + 1 ELSE pg

\* Lines 66 and 80, 132 and 143: `continue` skips, and the end of the
\* iteration runs, `page += 1`.
NextEmpPage(pg, act) == IF act = "next" THEN pg + 1 ELSE pg

\* One iteration of the loop, with what follows a break: the return.
EmpRequest ==
    /\ e_pc = "loop"
    /\ e_page <= max_pages
    /\ \E resp \in EmpResponses :
       \E tok \in (IF resp.kind = "http401" THEN TokenResults ELSE {"ok"}) :
          LET o == EmpIteration(e_method, e_page, all_employees,
                                seen_page_hashes, resp, tok)
          IN  /\ all_employees' = o.all
              /\ seen_page_hashes' = o.seen
              /\ token' = IF o.refreshed THEN NextToken(token) ELSE token
              /\ e_auth_failed' = (e_auth_failed \/ o.auth_failed)
              /\ e_page' = NextEmpPage(e_page, o.act)
              /\ e_requested' = e_page
              /\ e_answer' = resp.kind
              /\ e_pc' = CASE o.act = "break" -> "returned"
                           [] o.act = "raise" -> "raised"
                           [] OTHER -> "loop"
              /\ e_returned' = IF o.act = "break"
                               THEN EmpResult(e_method, o.all)
                               ELSE e_returned
              /\ e_pages' = IF resp.kind = "ok" /\ resp.items # <<>>
                            THEN Append(e_pages, resp.items) ELSE e_pages
              /\ e_stop' = IF o.act \in {"break", "raise"}
                           THEN StopReason(e_method, resp) ELSE e_stop
    /\ UNCHANGED <<e_method, max_pages, save_to_db, mes_employees>>
    /\ UNCHANGED notEmp

\* `while page <= max_pages` is false: the loop ends and the list is returned.
EmpLoopEnd ==
    /\ e_pc = "loop"
    /\ e_page > max_pages
    /\ e_pc' = "returned"
    /\ e_returned' = EmpResult(e_method, all_employees)
    /\ e_stop' = "max_pages"
    /\ UNCHANGED <<token, e_method, max_pages, e_page, all_employees,
                   seen_page_hashes, save_to_db, mes_employees, e_auth_failed,
                   e_pages, e_requested, e_answer>>
    /\ UNCHANGED notEmp

\* sync_employees, lines 417-430, after get_all_employees_from_api returned:
\* save_employees_to_postgres replaces the table unless the list is empty.
EmpSave ==
    /\ e_pc = "returned"
    /\ e_method = "staterest"
    /\ e_pc' = "done"
    /\ mes_employees' = IF save_to_db /\ e_returned # <<>>
                        THEN List(e_returned) ELSE mes_employees
    /\ UNCHANGED <<token, e_method, max_pages, e_page, all_employees,
                   seen_page_hashes, e_returned, save_to_db, e_auth_failed,
                   e_pages, e_stop, e_requested, e_answer>>
    /\ UNCHANGED notEmp

\* sync_employees(save_to_db) or _get_current_employees_from_api has called
\* its harvest with max_pages.
EmpInit ==
    /\ e_pc = "auth"
    /\ e_method \in {"staterest", "work"}
    /\ max_pages \in 1..MaxEmpPages
    /\ e_page = 1
    /\ all_employees = <<>>
    /\ seen_page_hashes = {}
    /\ e_returned = <<>>
    /\ save_to_db \in (IF e_method = "staterest" THEN BOOLEAN ELSE {FALSE})
    /\ mes_employees = None
    /\ e_auth_failed = FALSE
    /\ e_pages = <<>>
    /\ e_stop = ""
    /\ e_requested = 0
    /\ e_answer = ""

InitEmployees ==
    /\ CfgDefault /\ NoToken /\ SyncIdle /\ FetchIdle /\ DedupIdle /\ UploadIdle
    /\ EmpInit /\ StoreIdle /\ SideIdle

NextEmployees ==
    \/ EmpGetToken
    \/ EmpRequest
    \/ EmpLoopEnd
    \/ EmpSave

SpecEmployees == InitEmployees /\ [][NextEmployees]_vars

\* The loop is one thread that always takes its next step: every request is
\* answered or fails.
SpecEmployeesFair == SpecEmployees /\ WF_vars(NextEmployees)

\* --------------------------------- _get_page_hash, for any list of items

\* The items a page may hold: a mapping of JSON values, a mapping with a value
\* json.dumps cannot serialize ("opaque"), and a value that is not a mapping
\* and has no get method, such as a string or a number ("scalar").
HashItems ==
    { [shape |-> "dict", id_employee |-> 1],
      [shape |-> "dict", id_employee |-> 2],
      [shape |-> "opaque", id_employee |-> 1],
      [shape |-> "scalar", id_employee |-> 0] }

\* The non-empty pages: the harvest breaks on an empty one before hashing.
HashPayloads == UNION {[1..n -> HashItems] : n \in 1..MaxHashItems}

\* x.get('id_employee', '') succeeds.
HasGet(item) == item.shape # "scalar"

\* json.dumps(item) succeeds.
Serializable(item) == item.shape = "dict"

\* page_data[:n]
Slice(page_data, n) == SubSeq(page_data, 1, Min(n, Len(page_data)))

\* EmployeeService._get_page_hash, lines 202-215.  The try block sorts the
\* page with the key str(x.get('id_employee', '')), which raises for an item
\* without get, and dumps it, which raises for an item json cannot serialize;
\* the handler of `except Exception` calls item.get on the first five items,
\* outside any try.
get_page_hash_call(page_data) ==
    IF /\ \A i \in DOMAIN page_data : HasGet(page_data[i])
       /\ \A i \in DOMAIN page_data : Serializable(page_data[i])
    THEN [st |-> "returned"]
            @@ [NoDigest EXCEPT !.kind = "md5", !.sorted = SortEmp(page_data)]
    ELSE LET shown == Slice(page_data, HashIdsShown)
         IN  IF \A i \in DOMAIN shown : HasGet(shown[i])
             THEN [st |-> "returned"]
                     @@ [NoDigest EXCEPT !.kind = "fallback",
                                         !.len = Len(page_data),
                                         !.ids = [i \in DOMAIN shown |->
                                                     shown[i].id_employee]]
             ELSE [st |-> "raised"] @@ NoDigest

\* The call runs to its return or to the exception that leaves it.
HashCall ==
    /\ h_pc = "call"
    /\ LET r == get_page_hash_call(h_payload)
       IN  /\ h_pc' = r.st
           /\ h_result' = [k \in DOMAIN NoDigest |-> r[k]]
    /\ UNCHANGED <<h_payload, mainVars, statsVars, appendVars>>
    /\ UNCHANGED <<cfgVars, token, syncVars, fetchVars, dedupVars, uploadVars,
                   empVars, storeVars>>

\* _get_page_hash(h_payload) has been called.
HashInit ==
    /\ h_pc = "call"
    /\ h_payload \in HashPayloads
    /\ h_result = NoDigest

InitHash ==
    /\ CfgDefault /\ NoToken /\ SyncIdle /\ FetchIdle /\ DedupIdle /\ UploadIdle
    /\ EmpIdle /\ StoreIdle /\ NoExit /\ HashInit /\ StatsIdle
    /\ AppendIdle

NextHash == HashCall

SpecHash == InitHash /\ [][NextHash]_vars

\* ------------- get_employees_from_postgres and get_employee_statistics

\* The errors pd.read_sql can raise, by cause, and which of the two texts the
\* handler looks for str(e) holds.  PostgreSQL words them: relation "t" does
\* not exist; database "d" does not exist; permission denied for relation t;
\* could not connect to server.
ErrorCauses ==
    {"missing_table", "missing_database", "permission_denied", "no_connection"}

ErrorText(cause) ==
    CASE cause = "missing_table" -> {"does not exist", "relation"}
      [] cause = "missing_database" -> {"does not exist"}
      [] cause = "permission_denied" -> {"relation"}
      [] cause = "no_connection" -> {}

\* What reading the table can meet.
StoreConditions ==
    {Table(rows, c) : rows \in UNION {[1..n -> {"isna", "date"}] :
                                        n \in 0..MaxStatRows},
                      c \in BOOLEAN}
    \cup {StoreError(c) : c \in ErrorCauses}

\* get_employees_from_postgres, lines 438-454: the frame read, or for an
\* error whose text holds "does not exist" or "relation" an empty frame, or
\* the error raised again.
get_employees_from_postgres(store) ==
    IF store.kind = "rows"
    THEN [st |-> "returned",
          df |-> [rows |-> store.rows, has_column |-> store.has_column]]
    ELSE IF \/ "does not exist" \in ErrorText(store.cause)
            \/ "relation" \in ErrorText(store.cause)
         THEN [st |-> "returned", df |-> EmptyFrame]
         ELSE [st |-> "raised", df |-> EmptyFrame]

\* round(active / total * 100, 2), in hundredths of a percent; no quotient
\* of the model lies halfway between two hundredths.
Percentage(active, total) == (2 * 10000 * active + total) \div (2 * total)

\* get_employee_statistics, lines 461-484, for the frame df.
Statistics(df) ==
    IF df.rows = <<>>
    THEN [NoStats EXCEPT !.kind = "error"]
    ELSE IF ~df.has_column
    THEN [kind |-> "stats", total_employees |-> Len(df.rows),
          active_employees |-> Len(df.rows), dismissed_employees |-> 0,
          active_percentage |-> 10000]
    ELSE LET active == Len(SelectSeq(df.rows, LAMBDA d : d = "isna"))
             dismissed == Len(SelectSeq(df.rows, LAMBDA d : d # "isna"))
         IN  [kind |-> "stats", total_employees |-> Len(df.rows),
              active_employees |-> active, dismissed_employees |-> dismissed,
              active_percentage |-> Percentage(active, Len(df.rows))]

\* Line 459: df_employees = self.get_employees_from_postgres(); an error it
\* raises is logged and raised again by lines 486-488.
StatsRead ==
    /\ s_pc = "read"
    /\ LET r == get_employees_from_postgres(s_store)
       IN  /\ s_df' = r.df
           /\ s_pc' = IF r.st = "returned" THEN "stats" ELSE "raised"
    /\ UNCHANGED <<s_store, s_result, mainVars, hashVars, appendVars>>
    /\ UNCHANGED <<cfgVars, token, syncVars, fetchVars, dedupVars, uploadVars,
                   empVars, storeVars>>

\* Lines 461-484: the error value or the statistics is returned.
StatsReturn ==
    /\ s_pc = "stats"
    /\ s_result' = Statistics(s_df)
    /\ s_pc' = "returned"
    /\ UNCHANGED <<s_store, s_df, mainVars, hashVars, appendVars>>
    /\ UNCHANGED <<cfgVars, token, syncVars, fetchVars, dedupVars, uploadVars,
                   empVars, storeVars>>

\* get_employee_statistics has been called.
StatsInit ==
    /\ s_pc = "read"
    /\ s_store \in StoreConditions
    /\ s_df = EmptyFrame
    /\ s_result = NoStats

InitStats ==
    /\ CfgDefault /\ NoToken /\ SyncIdle /\ FetchIdle /\ DedupIdle /\ UploadIdle
    /\ EmpIdle /\ StoreIdle /\ NoExit /\ HashIdle /\ StatsInit
    /\ AppendIdle

NextStats ==
    \/ StatsRead
    \/ StatsReturn

SpecStats == InitStats /\ [][NextStats]_vars

\* ------------------------------ main() of main_sync.py and main_upload.py

\* As ExitCode, but the interrupt is handled as any other exception.
ExitCode_InterruptAsFailure(ending) ==
    IF ending = "normal" THEN 0 ELSE 1

\* main_sync.py lines 126-148 and main_upload.py lines 183-218: the status
\* the process exits with when the try block ends normally (main returns),
\* with an Exception (sys.exit(1)) or with a KeyboardInterrupt
\* (sys.exit(130)).
ExitCode(ending) ==
    CASE ending = "normal" -> 0
      [] ending = "exception" -> 1
      [] ending = "interrupt" -> 130

\* The position of the main thread in synchronize('api'): that in
\* fetch_all_ratings until it has returned, and that in synchronize then.
SyncPosition ==
    IF pc = "returned" /\ sync_pc # "harvest" THEN sync_pc ELSE pc

\* The positions of synchronize('api') and of upload_ratings at which the
\* main thread runs code of the try block of main(), the last two being the
\* return to main() before the block ends.
SyncPositions ==
    {"auth", "submit", "collect", "consume", "returned", "done", "nodata"}

UploadPositions ==
    {"auth", "read", "batch", "sequential", "summary", "done", "nodata"}

\* A KeyboardInterrupt is raised in the main thread during
\* synchronize('api').  No handler between the raise and main() catches it
\* (they are `except Exception` and `except requests.RequestException`, and
\* leaving the `with ThreadPoolExecutor` block joins the workers), so line
\* 142 of main_sync.py handles it and line 144 exits with 130.  An interrupt
\* that hits to_sql leaves the table as a failed write does.
InterruptSync ==
    /\ exit_code = -1
    /\ SyncPosition \in SyncPositions
    /\ pc' = "interrupted"
    /\ exit_code' = ExitCode("interrupt")
    /\ \/ /\ interrupted_at' = SyncPosition
          /\ UNCHANGED <<mes_ratings, writes>>
       \/ /\ SyncPosition = "returned"
          /\ ShouldSave(returned)
          /\ interrupted_at' = "write"
          /\ mes_ratings' \in BrokenWrite(mes_ratings)
          /\ writes' = writes + 1
    /\ UNCHANGED <<cfgVars, token, page, all_records, previous_page_data,
                   futures, batch_results, completed, p_pos, returned, fetched,
                   consumed, stop_page, fetch_calls>>
    /\ UNCHANGED <<sync_pc, ratings_before, fetchVars, dedupVars, uploadVars,
                   empVars, hashVars, statsVars, appendVars>>

\* A KeyboardInterrupt is raised during upload_ratings, in a POST, a sleep
\* or between them: line 212 of main_upload.py handles it and line 214
\* exits with 130.  What was sent stays sent.
InterruptUpload ==
    /\ exit_code = -1
    /\ u_pc \in UploadPositions
    /\ u_pc' = "interrupted"
    /\ interrupted_at' = u_pc
    /\ exit_code' = ExitCode("interrupt")
    /\ UNCHANGED <<max_retries, token, use_batches, batch_size, api_data_list,
                   batches, batch_num, item_pos, retry_count, success_count,
                   error_count, total_success, total_errors, summaries, posts,
                   outcome, postVars>>
    /\ UNCHANGED <<parallel_requests, syncVars, fetchVars, dedupVars, empVars,
                   storeVars, hashVars, statsVars, appendVars>>

\* The try block of main() ends without an interrupt: main() returns, or
\* the exception that synchronize or upload_ratings raised again is handled
\* by `except Exception`, which exits with 1.
MainExit ==
    /\ exit_code = -1
    /\ \/ /\ SyncPosition \in {"done", "nodata"} \/ u_pc \in {"done", "nodata"}
          /\ exit_code' = ExitCode("normal")
       \/ /\ SyncPosition \in {"raised", "failed"} \/ u_pc = "raised"
          /\ exit_code' = ExitCode("exception")
    /\ UNCHANGED <<interrupted_at, hashVars, statsVars, appendVars>>
    /\ UNCHANGED <<cfgVars, token, syncVars, fetchVars, dedupVars, uploadVars,
                   empVars, storeVars>>

\* main() of main_sync.py has called synchronize('api'), or main() of
\* main_upload.py has called upload_ratings.
InitMain == Init \/ InitUpload

NextMain ==
    \/ Next
    \/ NextUpload
    \/ InterruptSync
    \/ InterruptUpload
    \/ MainExit

SpecMain == InitMain /\ [][NextMain]_vars

\* Any one of the three runs: synchronize('api'), upload_ratings, or an
\* employee harvest.
InitRuns == Init \/ InitUpload \/ InitEmployees

NextRuns == Next \/ NextUpload \/ NextEmployees

SpecRuns == InitRuns /\ [][NextRuns]_vars

\* ------------------------------------------- append_ratings_to_postgres

\* read_table, line 35: pd.read_sql('SELECT * FROM mes_ratings') gives one
\* row per stored row; rating_index comes back as a column, and the index of
\* the frame is the default 0 .. n-1.
ReadFrameIndex(column) == [i \in 1..Len(column) |-> i - 1]

\* max() of a non-empty sequence of numbers.
SeqMax(seq) == CHOOSE m \in {seq[i] : i \in DOMAIN seq} :
                  \A i \in DOMAIN seq : seq[i] <= m

\* Line 246: df_rating_old.index.max() if not df_rating_old.empty else 0
MaxIndexOf(column) ==
    IF column = <<>> THEN 0 ELSE SeqMax(ReadFrameIndex(column))

\* Lines 254-255: df.reset_index(drop=True) numbers the n rows 0 .. n-1, and
\* df.index + max_index + 1 shifts them.
NewIndex(n, mx) == [i \in 1..n |-> (i - 1) + mx + 1]

\* Lines 244-250: the table is read and max_index is set; a read that raises
\* (no table, or no connection) sets it to 0.
AppendRead ==
    /\ a_pc = "read"
    /\ \/ /\ rating_index.kind = "list"
          /\ max_index' = MaxIndexOf(rating_index.items)
       \/ max_index' = 0
    /\ a_pc' = "write"
    /\ UNCHANGED <<a_df, rating_index, index_before, a_calls>>
    /\ UNCHANGED <<mainVars, hashVars, statsVars>>
    /\ UNCHANGED <<cfgVars, token, syncVars, fetchVars, dedupVars, uploadVars,
                   empVars, storeVars>>

\* Lines 252-270: the rows are numbered and appended by
\* to_sql(if_exists='append', index=True, index_label='rating_index'), which
\* creates the table if there is none; a to_sql that raises appends nothing
\* and the exception is raised again.
AppendWrite ==
    /\ a_pc = "write"
    /\ \/ /\ rating_index' =
                List((IF rating_index.kind = "list"
                      THEN rating_index.items ELSE <<>>)
                     \o NewIndex(a_df, max_index))
          /\ a_pc' = "returned"
       \/ /\ a_pc' = "raised"
          /\ UNCHANGED rating_index
    /\ UNCHANGED <<a_df, max_index, index_before, a_calls>>
    /\ UNCHANGED <<mainVars, hashVars, statsVars>>
    /\ UNCHANGED <<cfgVars, token, syncVars, fetchVars, dedupVars, uploadVars,
                   empVars, storeVars>>

\* synchronize('csv'), lines 304-316, runs again with another CSV and calls
\* append_ratings_to_postgres with its rows.
AppendAgain ==
    /\ a_pc \in {"returned", "raised"}
    /\ a_calls < MaxSyncs
    /\ a_calls' = a_calls + 1
    /\ a_df' \in 1..MaxCsvRows
    /\ index_before' = rating_index
    /\ max_index' = 0
    /\ a_pc' = "read"
    /\ UNCHANGED rating_index
    /\ UNCHANGED <<mainVars, hashVars, statsVars>>
    /\ UNCHANGED <<cfgVars, token, syncVars, fetchVars, dedupVars, uploadVars,
                   empVars, storeVars>>

\* append_ratings_to_postgres(df) has been called for the first time, with a
\* frame that is not empty (line 306); mes_ratings does not exist yet, or
\* exists without rows.
AppendInit ==
    /\ a_pc = "read"
    /\ a_df \in 1..MaxCsvRows
    /\ max_index = 0
    /\ rating_index \in {None, List(<<>>)}
    /\ index_before = rating_index
    /\ a_calls = 1

InitAppend ==
    /\ CfgDefault /\ NoToken /\ SyncIdle /\ FetchIdle /\ DedupIdle /\ UploadIdle
    /\ EmpIdle /\ StoreIdle /\ NoExit /\ HashIdle /\ StatsIdle /\ AppendInit

NextAppend ==
    \/ AppendRead
    \/ AppendWrite
    \/ AppendAgain

SpecAppend == InitAppend /\ [][NextAppend]_vars

\* ------------------------------- termination of the two fetch functions

\* The harvest is followed with no retry budget and with the largest; every
\* budget between is followed request by request from InitFetch.
CfgEnds ==
    /\ max_retries \in {0, MaxRetries}
    /\ parallel_requests \in 1..MaxParallel

\* fetch_all_ratings alone, without the write that synchronize adds.
InitHarvest ==
    /\ CfgEnds /\ NoToken /\ SyncInit /\ FetchIdle /\ DedupIdle /\ UploadIdle
    /\ EmpIdle /\ StoreIdle /\ SideIdle

NextHarvest ==
    \/ GetToken
    \/ SubmitWave
    \/ \E p \in DOMAIN futures : WorkerFetch(p)
    \/ \E p \in DOMAIN futures : Collect(p)
    \/ ExitPool
    \/ Consume
    \/ NextWave

InitTermination == InitHarvest \/ InitFetch

NextTermination == NextHarvest \/ NextFetch

\* A call of fetch_all_ratings, or one call of fetch_page_with_retry followed
\* request by request.  Every thread takes its next step: requests.get
\* answers or raises within its timeout of 15 s (line 50), time.sleep ends,
\* and the pool runs every submitted fetch.
SpecTermination ==
    InitTermination /\ [][NextTermination]_vars /\ WF_vars(NextTermination)

\* =================================================================== claims
\* ------------------------------------------- fetch_all_ratings (Spec)

\* Two dicts hold the same key/value pairs.
SameMapping(r1, r2) ==
    {r1[i] : i \in DOMAIN r1} = {r2[i] : i \in DOMAIN r2}

\* Two pages hold the same records in the same item order.
SamePage(a, b) ==
    Len(a) = Len(b) /\ \A i \in DOMAIN a : SameMapping(a[i], b[i])

\* Page t ends the harvest: it is Failed, empty, or the same as page t-1.
Terminal(t) ==
    \/ fetched[t].kind = "None"
    \/ fetched[t].items = <<>>
    \/ (t > 1 /\ fetched[t - 1].kind = "list"
        /\ SamePage(fetched[t].items, fetched[t - 1].items))

FirstTerminal ==
    CHOOSE t \in DOMAIN fetched :
        Terminal(t) /\ \A q \in DOMAIN fetched : q < t => ~Terminal(q)

\* The items of pages 1..n in page order.
RECURSIVE ConcatPages(_)
ConcatPages(n) ==
    IF n = 0 THEN <<>> ELSE ConcatPages(n - 1) \o fetched[n].items

Range(f) == {f[i] : i \in DOMAIN f}

\* C1: fetch_all_ratings returns exactly the items of pages 1..t-1 in page
\* order and unmodified, where t is the smallest page that is empty, Failed or
\* identical to page t-1; it stops at t, and at no moment does all_records hold
\* anything but the items of the pages accepted so far.
C1_ReturnsPagesBeforeFirstTerminal ==
    /\ all_records =
          ConcatPages(IF pc = "returned" THEN Len(consumed) - 1 ELSE Len(consumed))
    /\ pc = "returned" =>
          /\ \E t \in DOMAIN fetched : Terminal(t)
          /\ stop_page = FirstTerminal
          /\ returned = ConcatPages(FirstTerminal - 1)

\* C1 witness: the harvest stopped at the first page of a later wave because
\* it repeats the last page of the wave before, and the page fetched after it
\* in the same wave has items, none of which is returned.
C1_Witness ==
    /\ pc = "returned"
    /\ page > 1
    /\ stop_page = page
    /\ fetched[stop_page].items # <<>>
    /\ parallel_requests > 1
    /\ fetched[stop_page + 1].items # <<>>
    /\ Len(returned) > 0

\* The entity id of a rating record.
IdOf(rec) ==
    LET i == CHOOSE j \in 1..Len(rec) : rec[j][1] = "id_employee" IN rec[i][2]

RECURSIVE InsertById(_, _)
InsertById(rec, s) ==
    IF s = <<>> THEN <<rec>>
    ELSE IF IdOf(rec) < IdOf(Head(s)) THEN <<rec>> \o s
    ELSE <<Head(s)>> \o InsertById(rec, Tail(s))

RECURSIVE SortById(_)
SortById(pg) ==
    IF pg = <<>> THEN <<>> ELSE InsertById(Head(pg), SortById(Tail(pg)))

\* The canonical form of a page: items ordered by entity id, keys sorted.
Canonical(pg) == SortById(JsonDumps(pg))

\* C2: whenever page N+1 holds the same records as page N after canonical
\* ordering of the items by entity id, the harvest stops at page N+1 and
\* returns none of its records.
C2_CanonicalDuplicateStops ==
    \A i \in 1..Len(consumed) :
        LET p == consumed[i] IN
        (/\ p > 1
         /\ fetched[p].kind = "list" /\ fetched[p].items # <<>>
         /\ fetched[p - 1].kind = "list"
         /\ Canonical(fetched[p].items) = Canonical(fetched[p - 1].items))
        => (pc = "returned" /\ stop_page = p /\ returned = ConcatPages(p - 1))

\* C3: a Failed page halts the harvest in its wave, no later wave is started,
\* and the value returned is the records of all pages before it.
C3_FailedHaltsWithPrefix ==
    \A i \in 1..Len(consumed) :
        LET p == consumed[i] IN
        fetched[p].kind = "None" =>
            /\ pc = "returned"
            /\ stop_page = p
            /\ returned = ConcatPages(p - 1)
            /\ p \in page_range
            /\ DOMAIN fetched = 1..(page + parallel_requests - 1)

\* C3 witness: the harvest ended on a page whose worker raised, in a later
\* wave, with records gathered before it.
C3_Witness ==
    /\ pc = "returned"
    /\ fetched[stop_page].kind = "None"
    /\ futures[stop_page].st = "raised"
    /\ page > 1
    /\ Len(returned) > 0

\* C7: no result of a wave is inspected or appended while a fetch of the wave
\* is unfinished, and a wave is started only when every page of the waves
\* before it has been consumed.
C7_WaveBarrier ==
    /\ (\E p \in DOMAIN futures : futures[p].st = "running") =>
          /\ pc = "collect"
          /\ Range(consumed) \cap page_range = {}
          /\ all_records = ConcatPages(page - 1)
    /\ pc \in {"consume", "returned"} =>
          /\ DOMAIN futures = page_range
          /\ DOMAIN batch_results = page_range
    /\ pc = "collect" =>
          /\ DOMAIN futures = page_range
          /\ Range(consumed) = 1..(page - 1)

\* C7 witness: the second wave, of at least two fetches, is being consumed.
C7_Witness ==
    /\ pc = "consume"
    /\ page > 1
    /\ parallel_requests > 1
    /\ p_pos = 2

\* The harvest done one page after the other in ascending page order.
RECURSIVE Harvest(_, _, _)
Harvest(p, acc, prev) ==
    IF p \notin DOMAIN fetched THEN [stop |-> 0, records |-> acc]
    ELSE LET r == fetched[p] IN
         IF \/ r.kind = "None"
            \/ r.items = <<>>
            \/ (prev # <<>> /\ SamePage(r.items, prev))
         THEN [stop |-> p, records |-> acc]
         ELSE Harvest(p + 1, acc \o r.items, r.items)

\* C8: the results are consumed in strictly ascending page number whatever
\* the order in which the fetches complete, so the list returned and the page
\* at which the harvest stops are those of the sequential harvest.
C8_OrderIndependent ==
    /\ consumed = [i \in 1..Len(consumed) |-> i]
    /\ pc = "returned" =>
          [stop |-> stop_page, records |-> returned] = Harvest(1, <<>>, <<>>)

\* C8 witness: a harvest returned records although the fetches of its last
\* wave completed in descending page order.
C8_Witness ==
    /\ pc = "returned"
    /\ Len(completed) >= 2
    /\ completed[1] > completed[2]
    /\ page > 1
    /\ Len(returned) > 0

\* ------------------------------------ fetch_page_with_retry (SpecFetch)

\* C9: for a page whose every request fails at the transport level the
\* request is re-issued max_retries times after the initial attempt, the k-th
\* retry is preceded by a wait of retry_delay * k, and None is returned only
\* then.
C9_RetriesAfterInitialAttempt ==
    (/\ f_pc = "returned"
     /\ f_result = None
     /\ f_log # <<>>
     /\ \A i \in 1..Len(f_log) : f_log[i] = "neterr")
    => /\ Len(f_log) = max_retries + 1
       /\ f_waits = [k \in 1..max_retries |-> retry_delay * k]

\* C10: a request answered with HTTP 401 is not followed by another request
\* for the page at this layer.
C10_NoRetryAfter401 ==
    \A i \in 1..Len(f_log) : f_log[i] = "http401" => Len(f_log) = i

\* ---------------------- _filter_latest_employee_records (SpecDedup)

\* The date a date string stands for: an all-zero date counts as 1900-01-01.
DateValue(d) == IF d[1] = 0 THEN <<1900, 1, 1>> ELSE d

\* a is on or after b.
OnOrAfter(a, b) ==
    \/ a[1] > b[1]
    \/ (a[1] = b[1] /\ a[2] > b[2])
    \/ (a[1] = b[1] /\ a[2] = b[2] /\ a[3] >= b[3])

\* The date string is an all-zero date, or names a day of the calendar.
Parses(d) ==
    /\ Len(d) = 3
    /\ \/ d[1] = 0
       \/ (d[2] \in 1..12 /\ d[3] \in 1..DaysInMonth(d[1], d[2]))

InputIds ==
    {all_employee_records[i].id_employee : i \in DOMAIN all_employee_records}
        \ {0}

\* C4: when every date of the input parses, the output holds exactly one
\* record per distinct id, and the parsed date of that record is on or after
\* the parsed date of every input record with the same id.
C4_OneLatestRecordPerId ==
    (/\ filter_pc = "returned"
     /\ \A i \in DOMAIN all_employee_records :
           Parses(all_employee_records[i].date_work))
    => /\ Len(latest_records) = Cardinality(InputIds)
       /\ \A id \in InputIds :
             \E j \in DOMAIN latest_records :
                /\ latest_records[j].id_employee = id
                /\ \A k \in DOMAIN latest_records :
                      latest_records[k].id_employee = id => k = j
                /\ latest_records[j] \in Range(all_employee_records)
                /\ \A i \in DOMAIN all_employee_records :
                      all_employee_records[i].id_employee = id =>
                         OnOrAfter(DateValue(latest_records[j].date_work),
                                   DateValue(all_employee_records[i].date_work))

\* C4 witness: three records of one id with three different dates, the
\* latest of them in the middle, were reduced to that one.
C4_Witness ==
    /\ filter_pc = "returned"
    /\ Len(all_employee_records) = 3
    /\ \A i \in 1..3 : all_employee_records[i].id_employee = 1
    /\ all_employee_records[1].date_work = <<1900, 1, 1>>
    /\ all_employee_records[2].date_work = <<2024, 1, 1>>
    /\ all_employee_records[3].date_work = <<0, 0, 0>>
    /\ latest_records = <<all_employee_records[2]>>

\* The date string is a real date: it parses and is not an all-zero date.
IsRealDate(d) == Parses(d) /\ d[1] # 0

\* C5: a record with an all-zero date is never the one retained for an id
\* for which the input holds a record with a real date, whatever that date.
C5_SentinelLosesToRealDate ==
    filter_pc = "returned" =>
        \A j \in DOMAIN latest_records :
            (latest_records[j].date_work # <<>>
             /\ latest_records[j].date_work[1] = 0)
            => ~\E i \in DOMAIN all_employee_records :
                  /\ all_employee_records[i].id_employee
                        = latest_records[j].id_employee
                  /\ IsRealDate(all_employee_records[i].date_work)

\* ------------------------------------------- upload_ratings (SpecUpload)

Rows == DOMAIN api_data_list

\* C6: when upload_ratings reaches its summary, total_success + total_errors
\* is the number of rows, and every row has been counted in exactly one of
\* the two totals, in batched and in sequential mode.
C6_TotalsCoverEveryRow ==
    u_pc \in {"summary", "done"} =>
        /\ total_success + total_errors = Len(api_data_list)
        /\ \A r \in Rows : outcome[r] \in {"success", "error"}
        /\ total_success = Cardinality({r \in Rows : outcome[r] = "success"})
        /\ total_errors = Cardinality({r \in Rows : outcome[r] = "error"})
        /\ \A i \in DOMAIN summaries :
              summaries[i].success_count + summaries[i].error_count
                 = summaries[i].total_count

\* C6 witness: a batched run whose last batch is shorter than batch_size has
\* printed a summary with successes and errors.
C6_Witness ==
    /\ u_pc = "done"
    /\ Len(batches) >= 2
    /\ Len(batches[Len(batches)]) < batch_size
    /\ total_success > 0
    /\ total_errors > 0
    /\ Len(summaries) = 1

\* The latest top-level call of post_rating_to_mes has returned.
PostCallEnded == post_row # 0 /\ retry_count = 0

\* C11: a row whose POST fails k <= max_retries times in a row and then
\* succeeds ends as a success after k + 1 POSTs: the row is not given up
\* before max_retries + 1 failures, the i-th re-send is preceded by a wait of
\* retry_delay * i, and the row is counted as one success and no error.
C11_RetriedUntilSuccess ==
    /\ PostCallEnded =>
          LET k == Len(post_log) - 1 IN
          /\ \A i \in 1..k : post_log[i] # "ok"
          /\ k <= max_retries
          /\ posts[post_row] = k + 1
          /\ post_waits = [i \in 1..k |-> retry_delay * i]
          /\ post_log[k + 1] = "ok" <=> outcome[post_row] = "success"
          /\ post_log[k + 1] # "ok" <=> outcome[post_row] = "error"
          /\ outcome[post_row] = "error" => k = max_retries
    /\ total_success + success_count
          = Cardinality({r \in Rows : outcome[r] = "success"})
    /\ total_errors + error_count
          = Cardinality({r \in Rows : outcome[r] = "error"})

\* C11 witness: with max_retries = 3 a row failed twice and then succeeded:
\* three POSTs, waits of 1 and 2 delays, one success and no error counted.
C11_Witness ==
    /\ PostCallEnded
    /\ max_retries = 3
    /\ post_log = <<"neterr", "neterr", "ok">>
    /\ post_waits = <<retry_delay, 2 * retry_delay>>
    /\ posts[post_row] = 3
    /\ total_success + success_count = 1
    /\ total_errors + error_count = 0

\* C12: a row that exhausts its retries adds exactly one to the error count
\* and the run goes on: rows are sent in list order whatever the outcomes of
\* the rows before them, the run is never aborted once sending has started,
\* and at the summary every row has been sent at least once.
C12_ErrorsNeverAbort ==
    /\ \A r \in Rows : outcome[r] = "error" => posts[r] = max_retries + 1
    /\ total_errors + error_count
          = Cardinality({r \in Rows : outcome[r] = "error"})
    /\ \A r \in Rows :
          posts[r] > 0 => \A q \in Rows : q < r => outcome[q] # "none"
    /\ (\E r \in Rows : posts[r] > 0) =>
          u_pc \in {"batch", "sequential", "summary", "done"}
    /\ u_pc \in {"summary", "done"} => \A r \in Rows : posts[r] >= 1

\* C12 witness: a batched run ended in which the first row of the first
\* batch exhausted its retries and a later row of the same batch and a row
\* of the next batch were delivered.
C12_Witness ==
    /\ u_pc = "done"
    /\ batch_size = 2
    /\ Len(batches) = 2
    /\ max_retries > 0
    /\ outcome[1] = "error"
    /\ outcome[2] = "success"
    /\ outcome[3] = "success"
    /\ total_errors = 1
    /\ total_success = 2

\* C13: a POST answered with HTTP 401 is re-sent with a token different from
\* the one that was rejected.
C13_FreshTokenAfter401 ==
    \A i \in 1..(Len(post_log) - 1) :
        post_log[i] = "http401" => post_tokens[i + 1] # post_tokens[i]

\* -------- _filter_latest_employee_records, further claims (SpecDedup)

\* C16: the filter is idempotent: applied to the list it returned, it returns
\* that list again, same records in the same order, whatever the dates of
\* the input (real, all-zero, malformed or not a string).
C16_FilterIdempotent ==
    filter_pc = "returned" =>
        filter_latest_employee_records(latest_records) = latest_records

\* C16 witness: the filter returned more than one record, among them one with
\* a malformed date and one with an all-zero date or a date that is no string.
C16_Witness ==
    /\ filter_pc = "returned"
    /\ Len(latest_records) = 2
    /\ latest_records[1].date_work = <<2024, 13, 1>>
    /\ latest_records[2].date_work \in {<<0, 0, 0>>, <<7>>}
    /\ Len(all_employee_records) = 3

\* The records of a list that have both an id and a date.
Complete(recs) == SelectSeq(recs, LAMBDA r : ~IsIncomplete(r))

\* C17: a record whose id or date is missing or empty is not in the output,
\* and the output is what the filter returns for the input without these
\* records: they displace and block nothing, and the other records are
\* processed as usual.
C17_IncompleteRecordsDropped ==
    filter_pc = "returned" =>
        /\ \A j \in DOMAIN latest_records :
              /\ latest_records[j].id_employee # 0
              /\ latest_records[j].date_work # <<>>
        /\ latest_records
              = filter_latest_employee_records(Complete(all_employee_records))

\* C17 witness: a record without a date and a record without an id came
\* before a complete record of the same id as the first, which is returned.
C17_Witness ==
    /\ filter_pc = "returned"
    /\ Len(all_employee_records) = 3
    /\ all_employee_records[1].id_employee = 1
    /\ all_employee_records[1].date_work = <<>>
    /\ all_employee_records[2].id_employee = 0
    /\ all_employee_records[2].date_work = <<2024, 1, 1>>
    /\ all_employee_records[3].id_employee = 1
    /\ all_employee_records[3].date_work = <<1899, 12, 31>>
    /\ latest_records = <<all_employee_records[3]>>

\* The date of a complete record is a string that fails to parse.
FailsToParse(r) ==
    ~IsIncomplete(r) /\ IsString(r.date_work) /\ ~Parses(r.date_work)

\* The records processed so far.
Processed == SubSeq(all_employee_records, 1, rec_pos - 1)

\* The record retained for id_employee = id after the first n records.
RetainedAfter(n, id) ==
    LET elr == FilterLoop(<<>>, SubSeq(all_employee_records, 1, n))
    IN  IF HasKey(elr, id) THEN <<elr[KeyPos(elr, id)].data>> ELSE <<>>

\* C18: a record whose date fails to parse is retained if and only if no
\* record of its id was retained before it; it replaces no retained record;
\* and once a later record of its id with a real date has been processed it
\* is no longer the retained one.
C18_UnparseableFirstSeenOnly ==
    \A i \in DOMAIN Processed :
        LET r == all_employee_records[i] IN
        FailsToParse(r) =>
            /\ (RetainedAfter(i, r.id_employee) = <<r>>)
                  <=> (RetainedAfter(i - 1, r.id_employee) = <<>>)
            /\ RetainedAfter(i - 1, r.id_employee) # <<>> =>
                  RetainedAfter(i, r.id_employee)
                     = RetainedAfter(i - 1, r.id_employee)
            /\ \A j \in DOMAIN Processed :
                  (/\ j > i
                   /\ all_employee_records[j].id_employee = r.id_employee
                   /\ IsRealDate(all_employee_records[j].date_work))
                  => RetainedAfter(j, r.id_employee) # <<r>>

\* ------------------------------ EmployeeService harvests (SpecEmployeesFair)

\* The harvest has ended: it returned or raised.
EmpEnded == e_pc \in {"returned", "raised", "done"}

\* C14: a harvest ends after finitely many requests, also when the API goes
\* on answering 401 for a page after every successful token refresh: the run
\* is then aborted instead of asking for the same page for ever.
C14_ExpiredTokenLoopAborts == <>EmpEnded

\* ------------------------------------------------- the three runs (SpecRuns)

\* C15: once get_auth_token has raised, the run is over with that error: no
\* page was or will be fetched by fetch_all_ratings, no row is POSTed, the
\* employee harvest has raised instead of returning a list, and no table is
\* written.
C15_AuthFailureEndsRun ==
    /\ pc = "raised" => fetched = NoResults /\ futures = NoResults
    /\ u_pc = "raised" => \A r \in Rows : posts[r] = 0
    /\ e_auth_failed => e_pc = "raised" /\ mes_employees = None

\* --------------------------- fetch_all_ratings, the fetches issued (Spec)

\* The pages a fetch was submitted for.
FetchedPages == {p \in DOMAIN fetch_calls : fetch_calls[p] > 0}

RECURSIVE SumCalls(_)
SumCalls(n) == IF n = 0 THEN 0 ELSE SumCalls(n - 1) + fetch_calls[n]

\* The number of fetch_page_with_retry calls made so far.
TotalFetchCalls == SumCalls(Len(fetch_calls))

\* C19, as claimed: whatever parallel_requests is, fetches are issued only for
\* pages 1..t, t being the first terminal page; three pages with items
\* followed by an empty page 4 make exactly 4 fetch calls.
C19_FetchesOnlyUpToTerminal ==
    pc = "returned" =>
        /\ FetchedPages \subseteq 1..FirstTerminal
        /\ (FirstTerminal = 4 /\ fetched[4] = List(<<>>)) => TotalFetchCalls = 4

\* The last page of the wave that holds page t.
WaveEnd(t) ==
    ((t + parallel_requests - 1) \div parallel_requests) * parallel_requests

\* C19, amended: fetches are issued for exactly the pages from 1 to the end of
\* the wave that holds the first terminal page t, once each; three pages with
\* items followed by an empty page 4 make 4 fetch calls when
\* parallel_requests divides 4, and WaveEnd(4) calls in general.
C19_FetchesUpToEndOfWave ==
    /\ \A p \in DOMAIN fetch_calls : fetch_calls[p] = 1
    /\ DOMAIN fetch_calls \in {1..(page - 1), 1..(page + parallel_requests - 1)}
    /\ pc = "returned" =>
          /\ FetchedPages = 1..WaveEnd(FirstTerminal)
          /\ TotalFetchCalls = WaveEnd(FirstTerminal)
          /\ returned = ConcatPages(FirstTerminal - 1)
          /\ (FirstTerminal = 4 /\ parallel_requests \in {1, 2, 4}) =>
                TotalFetchCalls = 4

\* C19 witness: pages 1 to 3 had items and page 4 was empty; with waves of two
\* pages the items of pages 1 to 3 were returned after exactly 4 fetch calls.
C19_Witness ==
    /\ pc = "returned"
    /\ parallel_requests = 2
    /\ stop_page = 4
    /\ fetched[4] = List(<<>>)
    /\ \A p \in 1..3 : fetched[p].kind = "list" /\ fetched[p].items # <<>>
    /\ Len(returned)
          = Len(fetched[1].items) + Len(fetched[2].items) + Len(fetched[3].items)
    /\ TotalFetchCalls = 4

\* The pages whose fetch is in flight.
InFlight == {p \in DOMAIN futures : futures[p].st = "running"}

\* C20: at most parallel_requests fetches are in flight, all of them for
\* pages of the current wave, a range of parallel_requests consecutive page
\* numbers; and no page is fetched in more than one wave.
C20_OneWaveInFlight ==
    /\ Cardinality(InFlight) <= parallel_requests
    /\ InFlight \subseteq page_range
    /\ page_range = page .. (page + parallel_requests - 1)
    /\ (page - 1) % parallel_requests = 0
    /\ \A p \in DOMAIN fetch_calls : fetch_calls[p] <= 1
    /\ InFlight # {} => DOMAIN fetch_calls = 1..(page + parallel_requests - 1)

\* C20 witness: both fetches of the second wave are in flight.
C20_Witness ==
    /\ pc = "collect"
    /\ parallel_requests = 2
    /\ page = 3
    /\ InFlight = {3, 4}
    /\ fetch_calls = <<1, 1, 1, 1>>

\* ------------- get_additional_employees_data_from_api (SpecEmployees)

RECURSIVE ConcatEmpPages(_, _)
\* The records of the first n pages of the sequence pages, in order.
ConcatEmpPages(pages, n) ==
    IF n = 0 THEN <<>> ELSE ConcatEmpPages(pages, n - 1) \o pages[n]

\* C21: in the work harvest the duplicate-page stop fires on a non-empty page
\* exactly when its canonical content (the page sorted by id_employee) equals
\* that of the immediately preceding non-empty page, and the records of the
\* stopping page are not among the records handed to the dedup step.
C21_StopsOnRepeatOfPrecedingPage ==
    e_method = "work" =>
        LET n == Len(e_pages)
            stopped(i) == i = n /\ e_stop = "duplicate"
        IN  /\ \A i \in 1..n :
                  stopped(i) <=>
                      /\ i > 1
                      /\ SortEmp(e_pages[i]) = SortEmp(e_pages[i - 1])
            /\ all_employees
                  = ConcatEmpPages(e_pages,
                                   IF e_stop = "duplicate" THEN n - 1 ELSE n)

\* ------------------------- upload_ratings, the two delivery modes (SpecUpload)

RECURSIVE Repeat(_, _)
\* The sequence of n copies of x.
Repeat(x, n) == IF n = 0 THEN <<>> ELSE <<x>> \o Repeat(x, n - 1)

RECURSIVE SequentialSends(_, _)
\* What the sequential loop sends for the first n rows when row r takes
\* posts[r] POSTs: row 1 posts[1] times, then row 2, and so on.
SequentialSends(list, n) ==
    IF n = 0 THEN <<>>
    ELSE SequentialSends(list, n - 1) \o Repeat(list[n], posts[list[n]])

RECURSIVE ConcatBatches(_, _)
\* The rows of the first n slices, in order.
ConcatBatches(bs, n) ==
    IF n = 0 THEN <<>> ELSE ConcatBatches(bs, n - 1) \o bs[n]

\* The rows with a terminal outcome.
Settled == {r \in Rows : outcome[r] # "none"}

\* C22: whatever use_batches and batch_size are, the POSTs sent so far are
\* those the sequential loop sends for the same rows and the same per-item
\* outcomes, in the same order, and the tally handed to print_summary counts
\* the successes and the errors of the rows; the batches are consecutive
\* slices that cover every row exactly once, each of batch_size rows except
\* possibly the last, which is not empty.
C22_BatchedAsSequential ==
    /\ \E k \in 0..Len(api_data_list) :
          /\ sent = SequentialSends(api_data_list, k)
          /\ Settled \subseteq {api_data_list[i] : i \in 1..k}
          /\ \A i \in 1..(k - 1) : api_data_list[i] \in Settled
    /\ u_pc \in {"summary", "done"} =>
          /\ sent = SequentialSends(api_data_list, Len(api_data_list))
          /\ total_success = Cardinality({r \in Rows : outcome[r] = "success"})
          /\ total_errors = Cardinality({r \in Rows : outcome[r] = "error"})
    /\ u_pc = "batch" =>
          /\ ConcatBatches(batches, Len(batches)) = api_data_list
          /\ \A b \in 1..(Len(batches) - 1) : Len(batches[b]) = batch_size
          /\ Len(batches[Len(batches)]) \in 1..batch_size

\* C22 witness: three rows went out in two batches of two and one, the second
\* row failing after a retry, and the run ended with the tally (2, 1).
C22_Witness ==
    /\ u_pc = "done"
    /\ use_batches
    /\ batches = <<<<1, 2>>, <<3>>>>
    /\ sent = <<1, 2, 2, 3>>
    /\ outcome = <<"success", "error", "success">>
    /\ total_success = 2
    /\ total_errors = 1

\* ------------------------------- upload_ratings, the tally (SpecUploadFair)

\* C23: a run of upload_ratings that has started sending its rows eventually
\* ends having called print_summary once, whatever the POSTs answer; the
\* tally is never printed twice, and never before every row has its terminal
\* outcome.
C23_TallyEmittedOnce ==
    /\ [](Len(summaries) <= 1)
    /\ [](summaries # <<>> => \A r \in Rows : outcome[r] # "none")
    /\ (u_pc \in {"batch", "sequential"})
          ~> (u_pc = "done" /\ Len(summaries) = 1)

\* C23 witness: every POST of a run of two rows or more failed, and the run
\* ended with the one tally (0, number of rows).
C23_Witness ==
    /\ u_pc = "done"
    /\ Len(api_data_list) >= 2
    /\ \A r \in Rows : outcome[r] = "error"
    /\ summaries = <<[success_count |-> 0,
                      error_count |-> Len(api_data_list),
                      total_count |-> Len(api_data_list)]>>

\* ------------------------------------------ synchronize('api') (Spec)

\* C24: the store is written at most once in a run of synchronize('api'), and
\* only after fetch_all_ratings has returned a non-empty list, when no fetch
\* is in flight; until then, and in a run whose harvest is empty, the table
\* mes_ratings is as it was when the run started.
C24_OneWriteAfterHarvest ==
    /\ writes <= 1
    /\ writes = 1 =>
          /\ pc = "returned"
          /\ sync_pc \in {"done", "failed"}
          /\ InFlight = {}
          /\ stop_page # 0
          /\ returned # <<>>
    /\ writes = 0 => mes_ratings = ratings_before
    /\ sync_pc = "done" => writes = 1
    /\ sync_pc = "nodata" => writes = 0 /\ returned = <<>>

\* C24 witness: a harvest of two waves ended and its records were written,
\* in the one write of the run.
C24_Witness ==
    /\ sync_pc = "done"
    /\ parallel_requests = 2
    /\ stop_page = 3
    /\ writes = 1
    /\ mes_ratings = List(returned)
    /\ mes_ratings # ratings_before

\* C25: from the first wave of fetch_all_ratings on, the token is the one
\* get_auth_token stored before the first wave: no worker, whatever its
\* requests are answered, and no later step of the run assigns it.
C25_WorkersOnlyReadToken ==
    /\ pc \in {"auth", "raised"} => token = 0
    /\ pc \notin {"auth", "raised"} => token = 1

\* C25 witness: in a wave of two fetches, the worker of page 1 has ended
\* without a page and the worker of page 2 is still running, under the token
\* of the start of the run.
C25_Witness ==
    /\ pc = "collect"
    /\ parallel_requests = 2
    /\ max_retries > 1
    /\ DOMAIN futures = {1, 2}
    /\ futures[1] = [st |-> "returned", result |-> None]
    /\ futures[2] = Running
    /\ token = 1

\* ----------------------------------------------- _get_page_hash (SpecHash)

C28_TableIsTheHarvest ==
    /\ sync_pc = "done" => mes_ratings = List(returned)
    /\ (sync_pc = "done" /\ ratings_before = List(returned)) =>
          mes_ratings = ratings_before
    /\ sync_pc = "nodata" => mes_ratings = ratings_before

\* C28 witness: the table held the harvest of one record of a run before,
\* the API returned the same page again, and the table holds that one record.
C28_Witness ==
    /\ sync_pc = "done"
    /\ ratings_before = List(<<RecA>>)
    /\ returned = <<RecA>>
    /\ mes_ratings = List(<<RecA>>)

\* C30: when the harvest stopped on a Failed page with records gathered,
\* fetch_all_ratings returned the records of the pages before it, and
\* synchronize wrote them: unless the write itself raised, the run ended as
\* a success with mes_ratings holding the partial harvest in place of what it
\* held before.
C30_PartialHarvestReplacesTable ==
    (/\ stop_page # 0
     /\ fetched[stop_page].kind = "None"
     /\ all_records # <<>>) =>
        /\ returned = ConcatPages(stop_page - 1)
        /\ returned # <<>>
        /\ sync_pc \in {"harvest", "done", "failed"}
        /\ sync_pc = "done" => writes = 1 /\ mes_ratings = List(returned)

\* C30 witness: page 2 failed after page 1 gave records; the run ended as a
\* success and the table, which held the record of a run before, holds the
\* records of page 1.
C30_Witness ==
    /\ sync_pc = "done"
    /\ stop_page = 2
    /\ fetched[2].kind = "None"
    /\ ratings_before = List(<<RecA>>)
    /\ mes_ratings = List(fetched[1].items)
    /\ mes_ratings # ratings_before

\* ----------------------------------- get_employee_statistics (SpecStats)

\* C29: when the table mes_employees does not exist,
\* get_employees_from_postgres returns an empty frame and
\* get_employee_statistics returns its error value; every other error of the
\* store is raised again.
C29_OnlyMissingTableIsEmpty ==
    (s_pc # "read" /\ s_store.kind = "error") =>
        IF s_store.cause = "missing_table"
        THEN /\ s_pc \in {"stats", "returned"}
             /\ s_df = EmptyFrame
             /\ s_pc = "returned" => s_result.kind = "error"
        ELSE s_pc = "raised"

\* ----------------------- the harvest loops, page by page (SpecEmployees)

\* C31: every GET of a harvest loop is for the current page, which is at
\* most max_pages and not below the page of the GET before.  A 401 leaves the
\* page counter and the gathered records as they are, and after the refresh
\* the loop goes on, so that the next GET is for the same page; the counter
\* moves, by one, exactly on a 200 answer whose page is accepted.
C31_RefreshAndRetrySamePage ==
    /\ [](e_requested <= max_pages /\ e_requested <= e_page)
    /\ [][EmpRequest =>
            /\ e_requested' = e_page
            /\ e_requested' >= e_requested
            /\ e_page' \in {e_page, e_page + 1}
            /\ e_page' = e_page + 1 <=> (e_answer' = "ok" /\ e_pc' = "loop")
            /\ e_answer' = "http401" =>
                  /\ e_page' = e_page
                  /\ all_employees' = all_employees
                  /\ seen_page_hashes' = seen_page_hashes
                  /\ e_pages' = e_pages
                  /\ token' # token => e_pc' = "loop"
                  /\ token' = token => e_pc' \in {"returned", "raised"}
       ]_vars

\* C31 witness: page 1 was accepted and the GET of page 2 was answered 401;
\* the token was refreshed and the loop is about to ask for page 2 again.
C31_Witness ==
    /\ e_pc = "loop"
    /\ e_answer = "http401"
    /\ e_requested = 2
    /\ e_page = 2
    /\ Len(e_pages) = 1
    /\ all_employees # <<>>
    /\ token = 2

RECURSIVE Gathered(_, _, _)
\* What the loop has gathered from the first n non-empty pages it handled.
Gathered(method, pages, n) ==
    IF n = 0 THEN [all |-> <<>>, seen |-> {}]
    ELSE LET g == Gathered(method, pages, n - 1)
             a == AcceptPage(method, g.all, g.seen, pages[n])
         IN  [all |-> a.all, seen |-> a.seen]

\* C32: a transport error on a page after the first ends the loop, and the
\* harvest returns what the pages before it gave (filtered, in the work
\* harvest); on page 1 the error is raised and nothing is returned; a status
\* other than 200 and 401 ends the loop on any page without raising.
C32_TransportErrorKeepsRecords ==
    /\ all_employees = Gathered(e_method, e_pages, Len(e_pages)).all
    /\ e_answer = "neterr" =>
          IF e_requested = 1
          THEN e_pc = "raised" /\ e_returned = <<>> /\ mes_employees = None
          ELSE /\ e_pc \in {"returned", "done"}
               /\ e_stop = "error"
               /\ Len(e_pages) = e_requested - 1
               /\ e_returned = EmpResult(e_method, all_employees)
    /\ e_answer = "http500" =>
          /\ e_pc \in {"returned", "done"}
          /\ e_stop = "status"
          /\ Len(e_pages) = e_requested - 1
          /\ e_returned = EmpResult(e_method, all_employees)

\* C32 witness: the work harvest met a transport error on page 3 and
\* returned the filtered records of pages 1 and 2.
C32_Witness ==
    /\ e_method = "work"
    /\ e_pc = "returned"
    /\ e_answer = "neterr"
    /\ e_requested = 3
    /\ e_pages = <<<<EmpA, EmpA0>>, <<EmpB>>>>
    /\ Len(e_returned) = 2

RECURSIVE FirstSeen(_, _)
\* The records of the first n pages without those whose id_employee an
\* earlier record has, on the same page or on a page before.
FirstSeen(pages, n) ==
    IF n = 0 THEN <<>>
    ELSE LET flat == ConcatEmpPages(pages, n)
             keep(i) == \A j \in 1..(i - 1) :
                            flat[j].id_employee # flat[i].id_employee
             idx == SelectSeq([i \in 1..Len(flat) |-> i], keep)
         IN  [k \in 1..Len(idx) |-> flat[idx[k]]]

\* C33: the list get_all_employees_from_api returns holds no two records
\* with the same id_employee, also when a page lists an id twice, and for
\* every id it holds the record seen first.
C33_ReturnedIdsAreUnique ==
    (e_method = "staterest" /\ e_pc \in {"returned", "done"}) =>
        /\ \A i, j \in DOMAIN e_returned :
              e_returned[i].id_employee = e_returned[j].id_employee => i = j
        /\ e_returned = FirstSeen(e_pages, Len(e_pages))

\* ------------------ _filter_latest_employee_records, ties (SpecDedup)

\* The value the filter compares for a record: the parsed date, the value
\* itself when it is no string, 1900-01-01 when the string fails to parse.
ParsedDate(r) == ParseDate(r.date_work).date

\* a is strictly later than b: both datetimes, or both numbers.
StrictlyLater(a, b) ==
    /\ Len(a) = Len(b)
    /\ IF Len(a) = 3
       THEN \/ a[1] > b[1]
            \/ (a[1] = b[1] /\ a[2] > b[2])
            \/ (a[1] = b[1] /\ a[2] = b[2] /\ a[3] > b[3])
       ELSE a[1] > b[1]

\* Every complete record of the id is a string that parses.
AllParse(id) ==
    \A i \in DOMAIN all_employee_records :
        LET q == all_employee_records[i] IN
        (q.id_employee = id /\ ~IsIncomplete(q)) =>
            IsString(q.date_work) /\ ParseDate(q.date_work).ok

\* C34: no returned record comes after an input record of its id whose date
\* parses to the same value; when every date of an id parses, the returned
\* record of the id is the first of the input records whose parsed date is
\* the latest; and during the loop the retained record of an id is replaced
\* only by a record whose parsed date is strictly later.
C34_TieKeepsFirstSeen ==
    /\ filter_pc = "returned" =>
          \A j \in DOMAIN latest_records :
              LET r == latest_records[j] IN
              /\ \A i \in DOMAIN all_employee_records :
                    LET q == all_employee_records[i] IN
                    (/\ q.id_employee = r.id_employee
                     /\ ~IsIncomplete(q)
                     /\ ParseDate(q.date_work).ok
                     /\ ParsedDate(q) = ParsedDate(r))
                    => i >= r.row
              /\ AllParse(r.id_employee) =>
                    \A i \in DOMAIN all_employee_records :
                        LET q == all_employee_records[i] IN
                        (q.id_employee = r.id_employee /\ ~IsIncomplete(q))
                        => /\ ~StrictlyLater(ParsedDate(q), ParsedDate(r))
                           /\ ParsedDate(q) = ParsedDate(r) => i >= r.row
    /\ \A i \in DOMAIN Processed :
          LET id == all_employee_records[i].id_employee
              before == RetainedAfter(i - 1, id)
              after == RetainedAfter(i, id)
          IN  (before # <<>> /\ after # before) =>
                 /\ after = <<all_employee_records[i]>>
                 /\ StrictlyLater(ParsedDate(after[1]), ParsedDate(before[1]))

\* C34 witness: three records of one id, the second and the third with the
\* same date, later than the date of the first; the second was returned.
C34_Witness ==
    /\ filter_pc = "returned"
    /\ Len(all_employee_records) = 3
    /\ \A i \in 1..3 : all_employee_records[i].id_employee = 1
    /\ all_employee_records[1].date_work = <<1900, 1, 1>>
    /\ all_employee_records[2].date_work = <<2024, 1, 1>>
    /\ all_employee_records[3].date_work = <<2024, 1, 1>>
    /\ latest_records = <<all_employee_records[2]>>

\* --------- _filter_latest_employee_records, no entity lost (SpecDedup)

\* The ids of the input records that have both an id and a date.
CompleteIds ==
    {all_employee_records[i].id_employee :
        i \in {k \in DOMAIN all_employee_records :
                  ~IsIncomplete(all_employee_records[k])}}

\* C35: the ids of the returned records are exactly the ids of the input
\* records that have an id and a date, whether the date is valid, all-zero,
\* malformed or no string, and every returned record is the input record at
\* its row, with the same id and the same date.
C35_NoEntityLost ==
    filter_pc = "returned" =>
        /\ {latest_records[j].id_employee : j \in DOMAIN latest_records}
              = CompleteIds
        /\ \A j \in DOMAIN latest_records :
              /\ latest_records[j].row \in DOMAIN all_employee_records
              /\ latest_records[j]
                    = all_employee_records[latest_records[j].row]

\* C35 witness: a record without an id, a record with a malformed date and a
\* record of another id whose date is a number; the last two were returned.
C35_Witness ==
    /\ filter_pc = "returned"
    /\ Len(all_employee_records) = 3
    /\ all_employee_records[1].id_employee = 0
    /\ all_employee_records[2].id_employee = 1
    /\ all_employee_records[2].date_work = <<2024, 13, 1>>
    /\ all_employee_records[3].id_employee = 2
    /\ all_employee_records[3].date_work = <<7>>
    /\ latest_records = <<all_employee_records[2], all_employee_records[3]>>

\* ------------------------------ upload_ratings, POSTs per row (SpecUpload)

\* The number of POSTs sent so far for row r.
TimesSent(r) == Cardinality({i \in DOMAIN sent : sent[i] = r})

\* This step sent a POST.
Posted == Len(sent') = Len(sent) + 1

\* C36: a row is never sent more than max_retries + 1 times and only its
\* last POST can be a success; a POST that succeeds, or that fails with the
\* retries used up, settles its row in the same step, and a settled row is
\* never sent again; a POST that fails, with an HTTP error status or in
\* transport alike, is re-sent for the same row after (retry_count + 1)
\* delays as long as retry_count < max_retries.
C36_BoundedPostsPerRow ==
    /\ [](/\ \A r \in Rows :
                /\ posts[r] = TimesSent(r)
                /\ posts[r] <= max_retries + 1
                /\ outcome[r] = "none" /\ posts[r] > 0 => r = post_row
          /\ post_row # 0 =>
                /\ Len(post_log) <= posts[post_row]
                /\ \A i \in 1..(Len(post_log) - 1) : post_log[i] # "ok")
    /\ [][/\ \A r \in Rows :
                outcome[r] # "none" =>
                    posts'[r] = posts[r] /\ outcome'[r] = outcome[r]
          /\ Posted =>
                LET row == sent'[Len(sent')]
                    resp == post_log'[Len(post_log')]
                IN  /\ post_row' = row
                    /\ posts'[row] = retry_count + 1
                    /\ resp = "ok" =>
                          outcome'[row] = "success" /\ retry_count' = 0
                    /\ (resp # "ok" /\ retry_count < max_retries) =>
                          /\ outcome'[row] = "none"
                          /\ retry_count' = retry_count + 1
                          /\ post_waits'[Len(post_waits')]
                                = (retry_count + 1) * retry_delay
                    /\ (resp # "ok" /\ retry_count >= max_retries) =>
                          outcome'[row] = "error" /\ retry_count' = 0]_vars

\* C36 witness: with max_retries = 2 the first row failed three times and was
\* given up, and the second row was answered with an HTTP error status, then
\* failed in transport, then succeeded: six POSTs, three for each row.
C36_Witness ==
    /\ max_retries = 2
    /\ sent = <<1, 1, 1, 2, 2, 2>>
    /\ outcome[1] = "error"
    /\ outcome[2] = "success"
    /\ post_row = 2
    /\ post_log = <<"http401", "neterr", "ok">>
    /\ posts[1] = 3
    /\ posts[2] = 3

\* --------------------- termination of the fetches (SpecTermination)

\* C37: a call of fetch_page_with_retry sends at most max_retries requests
\* and always ends, by a return or by an exception that is no
\* RequestException, whatever its requests are answered with; a harvest that
\* has its token always returns when the API yields a page that is empty,
\* Failed or identical to the page before it (here it always does: no page
\* after MaxPages has items), and it returns at the first such page; it
\* returns only at such a page; and a wave consumed without such a page is
\* always followed by the next wave, whatever the page number.
C37_FetchesTerminate ==
    /\ [](Len(f_log) <= max_retries)
    /\ (f_pc = "loop") ~> (f_pc \in {"returned", "raised"})
    /\ (pc = "submit") ~> (pc = "returned")
    /\ [](pc = "returned" =>
             /\ stop_page \in DOMAIN fetched
             /\ Terminal(stop_page)
             /\ \A q \in DOMAIN fetched : q < stop_page => ~Terminal(q))
    /\ [][(pc = "consume" /\ p_pos > parallel_requests) =>
             /\ pc' = "submit"
             /\ page' = page + parallel_requests]_vars

\* C37 witness: with two fetches a wave, every page up to MaxPages had items
\* and differed from the page before it, and the harvest returned at the
\* empty page after them, in its third wave.
C37_Witness ==
    /\ pc = "returned"
    /\ parallel_requests = 2
    /\ stop_page = MaxPages + 1
    /\ fetched[stop_page] = List(<<>>)
    /\ Len(consumed) = MaxPages + 1

\* ------------------------- fetch_all_ratings, worker exceptions (Spec)

\* The pages of the wave whose fetch raised an exception.
RaisedPages == {p \in DOMAIN futures : futures[p].st = "raised"}

\* C38: a fetch that raised is recorded as Failed under its own page number
\* and every other fetch of the wave is recorded with the result it
\* returned; consumption starts only when every fetch of the wave has ended
\* and every page number of the wave has its record; the harvest itself
\* raises only when it could not get its token, before any fetch; and when
\* it stops at a page whose fetch raised, it returns the items of every page
\* before that page.
C38_WorkerExceptionIsFailedPage ==
    /\ \A p \in DOMAIN batch_results :
          batch_results[p] =
             (IF p \in RaisedPages THEN None ELSE futures[p].result)
    /\ pc \in {"consume", "returned"} =>
          /\ DOMAIN futures = page..(page + parallel_requests - 1)
          /\ DOMAIN batch_results = DOMAIN futures
          /\ \A p \in DOMAIN futures : futures[p].st \in {"returned", "raised"}
    /\ pc = "raised" => DOMAIN fetched = {} /\ DOMAIN futures = {}
    /\ (pc = "returned" /\ stop_page \in RaisedPages) =>
          /\ returned = ConcatPages(stop_page - 1)
          /\ \A q \in 1..(stop_page - 1) : fetched[q].items # <<>>

\* C38 witness: in the second wave of two fetches the fetch of page 3
\* returned a record and the fetch of page 4 raised; page 3 was accepted and
\* the harvest returned at page 4 with the records of pages 1 to 3.
C38_Witness ==
    /\ pc = "returned"
    /\ parallel_requests = 2
    /\ page = 3
    /\ futures[3] = [st |-> "returned", result |-> List(<<RecA>>)]
    /\ futures[4].st = "raised"
    /\ batch_results[4] = None
    /\ stop_page = 4
    /\ Len(returned) >= 3

\* --------------------------- append_ratings_to_postgres (SpecAppend)

\* The rating_index values the call that has just returned appended.
Appended ==
    SubSeq(rating_index.items, Len(rating_index.items) - a_df + 1,
           Len(rating_index.items))

\* C39: the rows a call appends get consecutive rating_index values, each of
\* them greater than every rating_index the table held when the call
\* started, and no two rows of the table ever share a rating_index.
C39_AppendedIndexesAreNew ==
    /\ a_pc = "returned" =>
          /\ \A i \in 1..(a_df - 1) : Appended[i + 1] = Appended[i] + 1
          /\ \A i \in DOMAIN Appended :
                \A j \in DOMAIN index_before.items :
                    Appended[i] > index_before.items[j]
    /\ \A i, j \in DOMAIN rating_index.items :
          i # j => rating_index.items[i] # rating_index.items[j]

=============================================================================
